---- MODULE Spec2Model ----
(***************************************************************************)
(* Incentive allocation and disbursement accounting of the farmers         *)
(* management application: the admin views that create, edit and delete    *)
(* incentives and toggle statuses (farmers/views.py), and the redemption   *)
(* center endpoint process_disbursement                                    *)
(* (farmers/redemption_center_views.py); and the access gate of the two    *)
(* portals: login, logout, the gated pages of redemption centers and       *)
(* vendors, and lookup_farmer_by_nin.                                      *)
(* Further: the deletions and the Disbursement admin (farmers/admin.py),   *)
(* the inventory and allocation reports, the farmer form with its state    *)
(* and LGA fields (farmers/forms.py), groups and group types, and          *)
(* Vendor.save with its registration numbers (farmers/models.py).          *)
(***************************************************************************)
EXTENDS Integers, FiniteSets, Sequences, TLC

\* ------------------------------------------------------------------ bounds
NumCenters == 2
NumFarmers == 2
MaxIncentives == 1
MaxQuantity == 3
MaxDisbursements == 2
NumRequests == 2
NumLogins == 1
NumVendors == 2
MaxRegistered == 1
NumStates == 2
NumLgas == 3
NumRegNos == 2
NumGroupTypes == 2
NumGroups == 2

CenterIds == 1..NumCenters
FarmerIds == 1..NumFarmers
IncentiveIds == 1..MaxIncentives
Requests == 1..NumRequests

\* A user that is logged in but is linked to no redemption center.
NoProfile == 0
\* A POST parameter that was not sent (request.POST.get gives None).
NoId == -1
\* An id parameter that is no numeral: the lookup by pk raises ValueError.
NonNumericId == -2
\* Primary keys a request may name: every id the tables can hold, so also ids
\* of rows never created or already deleted, and one id beyond each table.
IncentivePks == 1..(MaxIncentives + 1)
FarmerPks == 1..(NumFarmers + 1)
\* The centers that were given login credentials (redemption_center_credentials):
\* the user of center c is written c.
LoginCenters == 1..NumLogins
Users == LoginCenters \cup {NoProfile}
VendorIds == 1..NumVendors
\* The vendors that were given login credentials (vendor_credentials): the user
\* of vendor v is written v in the vendor portal.
VendorLogins == 1..NumLogins

VARIABLES
    centerStatus,        \* RedemptionCenter.redemption_center_status, or "deleted"
    farmerStatus,        \* Farmer.farmer_status
    incentives,          \* rows of Incentive
    nextIncentiveId,     \* AutoField sequence of Incentive
    disbursements,       \* rows of Disbursement
    nextDisbursementId,  \* AutoField sequence of Disbursement
    quantityEdited,      \* incentives whose quantity an incentive_edit changed
    granted,             \* per incentive, sum of the quantities answered with success
    last,                \* the last request that was served, and its outcome
    reqs,                \* process_disbursement requests running concurrently
    session,             \* users authenticated in the redemption-center portal
    vendorStatus,        \* Vendor.vendor_status
    vendorSession,       \* vendor users authenticated in the vendor portal
    vendorFarmers,       \* per vendor, the Farmer rows registered by vendor_farmer_create
    looked,              \* what the last lookup_farmer_by_nin answered
    farmerPlace,         \* per Farmer, its state and LGA (Blank where null)
    vendorRegNo,         \* per Vendor, its row with vendor_registration_no, or Absent
    vendorSave,          \* the calls of Vendor.save that are running
    groupTypes,          \* rows of GroupType
    groups,              \* per Group row, its group_type (Blank: no row)
    farmerGroupType,     \* Farmer.group_type (Blank where null)
    report               \* the report row a page is computing

vars == <<centerStatus, farmerStatus, incentives, nextIncentiveId, disbursements,
          nextDisbursementId, quantityEdited, granted, last, reqs,
          session, vendorStatus, vendorSession, vendorFarmers, looked,
          farmerPlace, vendorRegNo, vendorSave, groupTypes, groups,
          farmerGroupType, report>>

\* The registers of farmers, vendors and groups, and the report in progress,
\* which the views of incentives, disbursements and the portals leave alone.
registry == <<farmerPlace, vendorRegNo, vendorSave, groupTypes, groups,
              farmerGroupType, report>>

\* The state of the two portals, which the admin views leave alone.
portal == <<session, vendorStatus, vendorSession, vendorFarmers, looked>>

store == <<centerStatus, farmerStatus, incentives, nextIncentiveId, disbursements,
           nextDisbursementId>>

\* ------------------------------------------------------------ the registers
\* A foreign key that is null, a form field left empty, a row that is not there.
Blank == 0

StateIds == 1..NumStates
LgaIds == 1..NumLgas
GroupTypeIds == 1..NumGroupTypes
GroupIds == 1..NumGroups

\* LGA.state: the State each LGA row belongs to
LgaState == [l \in LgaIds |-> ((l - 1) % NumStates) + 1]

\* The row of a Farmer or of a Vendor that is not there
Absent == [absent |-> TRUE]

\* random.randint(100000, 999999): the numbers a draw can give
RegNoLow == 100000
RegNoHigh == 999999
\* The numbers the draws of the model give.
DrawnNumbers == RegNoLow..(RegNoLow + NumRegNos - 1)

\* A row of Vendor; the number is Blank while the field is empty
VendorRow(registration_no) == [vendor_registration_no |-> registration_no]

\* A Vendor.save that is not running
IdleSave == [pc |-> "idle"]

\* A page that computes no report row
IdleReport == [pc |-> "idle"]

\* The registers of a running installation: every farmer and vendor of the
\* portals is registered, without state, LGA or group; no group type exists.
RegistryInit ==
    /\ farmerPlace = [f \in FarmerIds |-> [state |-> Blank, LGA |-> Blank]]
    /\ vendorRegNo = [v \in VendorIds |-> VendorRow(RegNoLow + v - 1)]
    /\ vendorSave = [v \in VendorIds |-> IdleSave]
    /\ groupTypes = {}
    /\ groups = [g \in GroupIds |-> Blank]
    /\ farmerGroupType = [f \in FarmerIds |-> Blank]
    /\ report = IdleReport

\* ------------------------------------------------------- allocation accounting
RECURSIVE SumQuantity(_)
SumQuantity(rows) ==
    IF rows = {} THEN 0
    ELSE LET r == CHOOSE x \in rows : TRUE
         IN  r.quantity + SumQuantity(rows \ {r})

DisbursementsOf(rows, incentive_id) == {d \in rows : d.incentive = incentive_id}

\* Incentive.get_disbursed_quantity, over the Disbursement rows given
get_disbursed_quantity(rows, incentive) ==
    SumQuantity(DisbursementsOf(rows, incentive.incentive_id))

\* Incentive.get_remaining_quantity
get_remaining_quantity(rows, incentive) ==
    incentive.quantity - get_disbursed_quantity(rows, incentive)


\* A filter that also lets the exhausted incentive through.
NotOverdrawn(remaining) == remaining >= 0

\* if remaining > 0: the filter of the inventory and of the available incentives
HasRemaining(remaining) == remaining > 0

\* --------------------------------------------------------------- the store
\* Incentive.objects.filter(pk=..., redemption_center=...)
IncentiveRows(pk, center) ==
    {i \in incentives : i.incentive_id = pk /\ i.redemption_center = center}

IncentiveByPk(pk) == {i \in incentives : i.incentive_id = pk}

FarmerExists(pk) == pk \in FarmerIds /\ farmerPlace[pk] # Absent

\* hasattr(request.user, 'redemption_center_profile')
HasProfile(user) == user \in LoginCenters /\ centerStatus[user] # "deleted"

\* Disbursement.objects.filter(incentive=..., farmer=...).exists()
DisbursementExists(rows, incentive_id, farmer_id) ==
    \E d \in rows : d.incentive = incentive_id /\ d.farmer = farmer_id

\* A create() that leaves the quantity out, so that every row holds one unit.
NewDisbursementOfOneUnit(id, incentive, farmer_id, quantity, center, user) ==
    [disbursement_id |-> id, incentive |-> incentive.incentive_id, farmer |-> farmer_id,
     quantity |-> 1, redemption_center |-> center, disbursed_by |-> user,
     notes |-> ""]

\* A create() that records no issuer.
NewDisbursementWithoutIssuer(id, incentive, farmer_id, quantity, center, user) ==
    [disbursement_id |-> id, incentive |-> incentive.incentive_id, farmer |-> farmer_id,
     quantity |-> quantity, redemption_center |-> center, disbursed_by |-> NoProfile,
     notes |-> ""]

\* lines 347-354: the row that Disbursement.objects.create is given; the
\* requests send no notes, and request.POST.get('notes', '').strip() is ''
NewDisbursement(id, incentive, farmer_id, quantity, center, user) ==
    [disbursement_id |-> id, incentive |-> incentive.incentive_id, farmer |-> farmer_id,
     quantity |-> quantity, redemption_center |-> center, disbursed_by |-> user,
     notes |-> ""]

\* A Disbursement table without the uniqueness constraint.
DisbursementCreateUnconstrained(rows, row) == [ok |-> TRUE, rows |-> rows \cup {row}]

\* Disbursement.objects.create: the INSERT, refused by the store when a row for
\* the same (incentive, farmer) is already there.
DisbursementCreate(rows, row) ==
    IF DisbursementExists(rows, row.incentive, row.farmer)
    THEN [ok |-> FALSE, rows |-> rows]
    ELSE [ok |-> TRUE, rows |-> rows \cup {row}]

\* ------------------------------------------------------------- responses
NoResponse == [status |-> 0, error |-> "none"]

ErrorResponse(status, error) == [status |-> status, error |-> error]

InsufficientResponse(remaining) ==
    [status |-> 400, error |-> "Insufficient quantity", remaining |-> remaining]

SuccessResponse(id, remaining) ==
    [status |-> 200, error |-> "", disbursement_id |-> id, remaining_quantity |-> remaining]

\* @login_required: the redirect to the login page
LoginRequired == [status |-> 302, error |-> "", location |-> "login"]
AccessDenied == ErrorResponse(403, "Access denied")
InvalidQuantity == ErrorResponse(400, "Invalid quantity value")
IdsRequired == ErrorResponse(400, "Incentive and farmer are required")
QuantityTooSmall == ErrorResponse(400, "Quantity must be at least 1")
IncentiveNotFound == ErrorResponse(500, "An error occurred: No Incentive matches the given query.")
FarmerNotFound == ErrorResponse(500, "An error occurred: No Farmer matches the given query.")
FarmerInactive == ErrorResponse(400, "Farmer account is inactive")
AlreadyReceived == ErrorResponse(400, "This farmer has already received this incentive")
StoreFault == ErrorResponse(500, "An error occurred: UNIQUE constraint failed")

\* What a request leaves behind: its response and the Disbursement rows after it.
Outcome(response, rows) == [response |-> response, rows |-> rows]

\* ------------------------------------------------- process_disbursement
\* The comparison off by one: a request for exactly what remains is refused.
ReachesRemaining(quantity, remaining) == quantity >= remaining

\* line 326: if quantity > remaining
ExceedsRemaining(quantity, remaining) == quantity > remaining

\* A handler that does not look at the farmer's status.
FarmerStatusIgnored(status) == FALSE

\* A handler that goes by what the last lookup answered.
FarmerNotActiveAtLookup(status) == looked.response.status # 200

\* line 335: if farmer.farmer_status != 'active'
FarmerNotActive(status) == status # "active"

\* A handler without the duplicate check.
NeverDisbursed(rows, incentive_id, farmer_id) == FALSE

\* line 341: Disbursement.objects.filter(incentive=incentive, farmer=farmer).exists()
AlreadyDisbursed(rows, incentive_id, farmer_id) ==
    \E d \in rows : d.incentive = incentive_id /\ d.farmer = farmer_id

\* The parameter checks without the minimum of the quantity.
CheckParametersWithoutMinimum(user, incentive_id, farmer_id, quantity) ==
    IF user \notin session THEN LoginRequired
    ELSE IF ~HasProfile(user) THEN AccessDenied
    ELSE IF ~quantity.isint THEN InvalidQuantity
    ELSE IF incentive_id = NoId \/ farmer_id = NoId THEN IdsRequired
    ELSE NoResponse

\* Lines 300-319: @login_required, the profile check, int(), and the checks of
\* the parameters. NoResponse when the request goes on to the lookups.
CheckParameters(user, incentive_id, farmer_id, quantity) ==
    IF user \notin session THEN LoginRequired
    ELSE IF ~HasProfile(user) THEN AccessDenied
    ELSE IF ~quantity.isint THEN InvalidQuantity
    ELSE IF incentive_id = NoId \/ farmer_id = NoId THEN IdsRequired
    ELSE IF quantity.value < 1 THEN QuantityTooSmall
    ELSE NoResponse

\* The handler with the farmer looked up and checked before the quantity.
DisburseCheckedFarmerFirst(user, incentive_id, farmer_id, quantity) ==
    LET found == IncentiveRows(incentive_id, user) IN
    IF incentive_id = NonNumericId THEN Outcome(InvalidQuantity, disbursements)
    ELSE IF found = {} THEN Outcome(IncentiveNotFound, disbursements)
    ELSE
    LET incentive == CHOOSE i \in found : TRUE
        remaining == get_remaining_quantity(disbursements, incentive) IN
    IF farmer_id = NonNumericId THEN Outcome(InvalidQuantity, disbursements)
    ELSE IF ~FarmerExists(farmer_id) THEN Outcome(FarmerNotFound, disbursements)
    ELSE IF FarmerNotActive(farmerStatus[farmer_id])
         THEN Outcome(FarmerInactive, disbursements)
    ELSE IF AlreadyDisbursed(disbursements, incentive_id, farmer_id)
         THEN Outcome(AlreadyReceived, disbursements)
    ELSE IF ExceedsRemaining(quantity, remaining)
         THEN Outcome(InsufficientResponse(remaining), disbursements)
    ELSE
    LET row == NewDisbursement(nextDisbursementId, incentive, farmer_id, quantity, user, user)
        created == DisbursementCreate(disbursements, row) IN
    IF ~created.ok THEN Outcome(StoreFault, disbursements)
    ELSE Outcome(SuccessResponse(row.disbursement_id,
                                 get_remaining_quantity(created.rows, incentive)),
                 created.rows)

\* Lines 321-361, for a request that passed the parameter checks: the incentive
\* lookup, the remaining-quantity check, the farmer lookup and status check,
\* the duplicate check, the insert and the response.
DisburseChecked(user, incentive_id, farmer_id, quantity) ==
    LET found == IncentiveRows(incentive_id, user) IN
    IF incentive_id = NonNumericId THEN Outcome(InvalidQuantity, disbursements)
    ELSE IF found = {} THEN Outcome(IncentiveNotFound, disbursements)
    ELSE
    LET incentive == CHOOSE i \in found : TRUE
        remaining == get_remaining_quantity(disbursements, incentive) IN
    IF ExceedsRemaining(quantity, remaining)
    THEN Outcome(InsufficientResponse(remaining), disbursements)
    ELSE IF farmer_id = NonNumericId THEN Outcome(InvalidQuantity, disbursements)
    ELSE IF ~FarmerExists(farmer_id) THEN Outcome(FarmerNotFound, disbursements)
    ELSE IF FarmerNotActive(farmerStatus[farmer_id])
         THEN Outcome(FarmerInactive, disbursements)
    ELSE IF AlreadyDisbursed(disbursements, incentive_id, farmer_id)
         THEN Outcome(AlreadyReceived, disbursements)
    ELSE
    LET row == NewDisbursement(nextDisbursementId, incentive, farmer_id, quantity, user, user)
        created == DisbursementCreate(disbursements, row) IN
    IF ~created.ok THEN Outcome(StoreFault, disbursements)
    ELSE Outcome(SuccessResponse(row.disbursement_id,
                                 get_remaining_quantity(created.rows, incentive)),
                 created.rows)

\* The whole handler, lines 302-366, as the response and the rows it leaves.
Disburse(user, incentive_id, farmer_id, quantity) ==
    LET refused == CheckParameters(user, incentive_id, farmer_id, quantity) IN
    IF refused # NoResponse THEN Outcome(refused, disbursements)
    ELSE DisburseChecked(user, incentive_id, farmer_id, quantity.value)

\* The raw "quantity" POST parameter: a decimal numeral, or some other text.
IntParam(n) == [isint |-> TRUE, value |-> n]
NotAnInt == [isint |-> FALSE, value |-> 0]

\* Requests with numeric ids whose parameters pass the checks of lines 304-319 ...
CheckedRequests ==
    [user : LoginCenters, incentive_id : IncentivePks, farmer_id : FarmerPks,
     quantity : {IntParam(n) : n \in 1..MaxQuantity}]

\* ... and one request for each way of failing them.
RefusedRequests ==
    {[user |-> NoProfile, incentive_id |-> 1, farmer_id |-> 1, quantity |-> IntParam(1)],
     [user |-> 1, incentive_id |-> 1, farmer_id |-> 1, quantity |-> NotAnInt],
     [user |-> 1, incentive_id |-> NoId, farmer_id |-> 1, quantity |-> IntParam(1)],
     [user |-> 1, incentive_id |-> 1, farmer_id |-> NoId, quantity |-> IntParam(1)],
     [user |-> 1, incentive_id |-> 1, farmer_id |-> 1, quantity |-> IntParam(0)],
     [user |-> 1, incentive_id |-> NonNumericId, farmer_id |-> 1, quantity |-> IntParam(1)],
     [user |-> 1, incentive_id |-> 1, farmer_id |-> NonNumericId, quantity |-> IntParam(1)]}

DisburseRequests == CheckedRequests \cup RefusedRequests

ProcessResult(req, response) ==
    [view |-> "process_disbursement", request |-> req, response |-> response]

process_disbursement(req) ==
    LET out == Disburse(req.user, req.incentive_id, req.farmer_id, req.quantity)
        success == out.response.status = 200 IN
    /\ success => nextDisbursementId <= MaxDisbursements
    /\ disbursements' = out.rows
    /\ nextDisbursementId' = IF success THEN nextDisbursementId + 1 ELSE nextDisbursementId
    /\ granted' = IF success
                  THEN [granted EXCEPT ![req.incentive_id] = @ + req.quantity.value]
                  ELSE granted
    /\ last' = ProcessResult(req, out.response)
    /\ UNCHANGED <<centerStatus, farmerStatus, incentives, nextIncentiveId, quantityEdited, reqs>>
    /\ UNCHANGED portal
    /\ UNCHANGED registry

\* ------------------------------------------------------------ admin views
AdminResult(view, result) == [view |-> view, result |-> result]

\* The outcome of a POST to incentive_create or incentive_edit, with the pk and
\* the redemption_center field that were posted.
FormResult(view, result, pk, center) ==
    [view |-> view, result |-> result, pk |-> pk, redemption_center |-> center]

\* A toggle that can only deactivate.
Deactivated(status) == "inactive"

\* The toggle of the status views: 'active' becomes 'inactive', anything else 'active'.
ToggledStatus(status) == IF status = "active" THEN "inactive" ELSE "active"

\* A check that takes every center for an active one.
RedemptionCenterKnown(center) == center \in CenterIds

\* redemption_center.redemption_center_status == 'active'
RedemptionCenterActive(center) == centerStatus[center] = "active"

\* farmer_toggle_status
farmer_toggle_status(pk) ==
    /\ FarmerExists(pk)
    /\ farmerStatus' = [farmerStatus EXCEPT ![pk] =
                           IF @ = "active" THEN "inactive" ELSE "active"]
    /\ last' = AdminResult("farmer_toggle_status", "saved")
    /\ UNCHANGED <<centerStatus, incentives, nextIncentiveId, disbursements,
                   nextDisbursementId, quantityEdited, granted, reqs>>
    /\ UNCHANGED portal
    /\ UNCHANGED registry

\* redemption_center_toggle_status
redemption_center_toggle_status(pk) ==
    /\ pk \in CenterIds
    /\ centerStatus[pk] # "deleted"
    /\ centerStatus' = [centerStatus EXCEPT ![pk] = ToggledStatus(@)]
    /\ last' = AdminResult("redemption_center_toggle_status", "saved")
    /\ UNCHANGED <<farmerStatus, incentives, nextIncentiveId, disbursements,
                   nextDisbursementId, quantityEdited, granted, reqs>>
    /\ UNCHANGED portal
    /\ UNCHANGED registry

\* IncentiveForm.__init__: the centers the redemption_center field offers
IncentiveFormQueryset(instance) ==
    {c \in CenterIds : RedemptionCenterActive(c)}
        \cup {i.redemption_center : i \in instance}

\* IncentiveForm.is_valid: the quantity field (a PositiveIntegerField takes 0),
\* the choice among the offered centers, and clean_redemption_center
IncentiveFormValid(instance, quantity, center) ==
    /\ quantity >= 0
    /\ center \in IncentiveFormQueryset(instance)
    /\ RedemptionCenterActive(center)

\* incentive_create
incentive_create(quantity, center) ==
    /\ nextIncentiveId <= MaxIncentives
    /\ IF IncentiveFormValid({}, quantity, center) /\ RedemptionCenterActive(center)
       THEN /\ incentives' = incentives \cup
                   {[incentive_id |-> nextIncentiveId, quantity |-> quantity,
                     redemption_center |-> center]}
            /\ nextIncentiveId' = nextIncentiveId + 1
            /\ last' = FormResult("incentive_create", "saved", nextIncentiveId, center)
       ELSE /\ UNCHANGED <<incentives, nextIncentiveId>>
            /\ last' = FormResult("incentive_create", "invalid", nextIncentiveId, center)
    /\ UNCHANGED <<centerStatus, farmerStatus, disbursements, nextDisbursementId,
                   quantityEdited, granted, reqs>>
    /\ UNCHANGED portal
    /\ UNCHANGED registry

\* incentive_edit
incentive_edit(pk, quantity, center) ==
    /\ IncentiveByPk(pk) # {}
    /\ LET incentive == CHOOSE i \in IncentiveByPk(pk) : TRUE IN
       IF IncentiveFormValid({incentive}, quantity, center) /\ RedemptionCenterActive(center)
       THEN /\ incentives' = (incentives \ {incentive}) \cup
                   {[incentive EXCEPT !.quantity = quantity, !.redemption_center = center]}
            /\ quantityEdited' = IF quantity # incentive.quantity
                                 THEN quantityEdited \cup {pk} ELSE quantityEdited
            /\ last' = FormResult("incentive_edit", "saved", pk, center)
       ELSE /\ UNCHANGED <<incentives, quantityEdited>>
            /\ last' = FormResult("incentive_edit", "invalid", pk, center)
    /\ UNCHANGED <<centerStatus, farmerStatus, nextIncentiveId, disbursements,
                   nextDisbursementId, granted, reqs>>
    /\ UNCHANGED portal
    /\ UNCHANGED registry

\* Disbursement.incentive cascades: deleting an Incentive deletes its Disbursements.
DisbursementsAfterIncentiveDelete(rows, pk) == rows \ DisbursementsOf(rows, pk)

\* incentive_delete (POST): the row goes, and with it its Disbursement rows
incentive_delete(pk) ==
    /\ IncentiveByPk(pk) # {}
    /\ incentives' = incentives \ IncentiveByPk(pk)
    /\ disbursements' = DisbursementsAfterIncentiveDelete(disbursements, pk)
    /\ quantityEdited' = quantityEdited \ {pk}
    /\ granted' = [granted EXCEPT ![pk] = 0]
    /\ last' = AdminResult("incentive_delete", "deleted")
    /\ UNCHANGED <<centerStatus, farmerStatus, nextIncentiveId, nextDisbursementId, reqs>>
    /\ UNCHANGED portal
    /\ UNCHANGED registry

\* ---------------------------------------------------- the admin site
DisbursementFields ==
    {"disbursement_id", "incentive", "farmer", "quantity", "redemption_center",
     "disbursed_by", "notes"}

\* DisbursementAdmin.readonly_fields, of the fields above
readonly_fields == {"disbursement_id"}

\* An admin that makes no further field read-only for an existing row.
get_readonly_fields_of_new_row(obj) == readonly_fields

\* DisbursementAdmin.get_readonly_fields: obj is {} on the add form
get_readonly_fields(obj) ==
    IF obj # {}
    THEN readonly_fields \cup {"incentive", "farmer", "quantity", "redemption_center",
                               "disbursed_by", "notes"}
    ELSE readonly_fields

\* What the change form of the admin site saves: a read-only field keeps the
\* value of the row, every other field takes the value that was posted.
ChangeFormSaved(row, posted) ==
    [f \in DisbursementFields |->
        IF f \in get_readonly_fields({row}) THEN row[f] ELSE posted[f]]

\* The values a change form may post.
PostedDisbursements ==
    {[disbursement_id |-> Blank, incentive |-> i, farmer |-> f, quantity |-> MaxQuantity,
      redemption_center |-> c, disbursed_by |-> NoProfile, notes |-> "changed"] :
        i \in IncentiveIds, f \in FarmerIds, c \in CenterIds}

\* The change view of DisbursementAdmin (POST)
disbursement_admin_change(pk, posted) ==
    /\ \E row \in disbursements :
          /\ row.disbursement_id = pk
          /\ disbursements' = (disbursements \ {row}) \cup {ChangeFormSaved(row, posted)}
    /\ last' = AdminResult("disbursement_admin_change", "saved")
    /\ UNCHANGED <<centerStatus, farmerStatus, incentives, nextIncentiveId,
                   nextDisbursementId, quantityEdited, granted, reqs>>
    /\ UNCHANGED portal
    /\ UNCHANGED registry

\* ------------------------------------------------------------- deletions
\* Incentive.redemption_center cascades: the Incentive rows of a deleted center go.
IncentivesAfterCenterDelete(rows, pk) == {i \in rows : i.redemption_center # pk}

\* A Disbursement table whose rows outlive their center and their incentive.
DisbursementsKeptAfterCenterDelete(rows, pk) == rows

\* Disbursement.incentive and Disbursement.redemption_center cascade: the rows
\* against the incentives of the deleted center go, and the rows it issued.
DisbursementsAfterCenterDelete(rows, pk) ==
    {d \in rows : /\ d.redemption_center # pk
                  /\ \A i \in incentives : i.incentive_id = d.incentive
                                               => i.redemption_center # pk}

\* redemption_center_delete (POST)
redemption_center_delete(pk) ==
    /\ pk \in CenterIds
    /\ centerStatus[pk] # "deleted"
    /\ centerStatus' = [centerStatus EXCEPT ![pk] = "deleted"]
    /\ incentives' = IncentivesAfterCenterDelete(incentives, pk)
    /\ disbursements' = DisbursementsAfterCenterDelete(disbursements, pk)
    /\ quantityEdited' = {i \in quantityEdited : IncentiveRows(i, pk) = {}}
    /\ granted' = [i \in IncentiveIds |-> IF IncentiveRows(i, pk) # {} THEN 0 ELSE granted[i]]
    /\ last' = [view |-> "redemption_center_delete", result |-> "deleted", pk |-> pk,
                deleted |-> [Incentive |-> Cardinality(incentives) - Cardinality(incentives'),
                             Disbursement |-> Cardinality(disbursements)
                                                  - Cardinality(disbursements')]]
    /\ UNCHANGED <<farmerStatus, nextIncentiveId, nextDisbursementId, reqs>>
    /\ UNCHANGED portal
    /\ UNCHANGED registry

\* ---------------------------------------------------------- specification
IdleRequest == [pc |-> "idle"]

\* Every user is logged in, and stays so: the admin views and
\* process_disbursement never end a session.
StoreInit ==
    /\ centerStatus = [c \in CenterIds |-> "active"]
    /\ farmerStatus = [f \in FarmerIds |-> "active"]
    /\ incentives = {}
    /\ nextIncentiveId = 1
    /\ disbursements = {}
    /\ nextDisbursementId = 1
    /\ quantityEdited = {}
    /\ granted = [i \in IncentiveIds |-> 0]
    /\ last = AdminResult("none", "none")
    /\ reqs = [r \in Requests |-> IdleRequest]
    /\ session = Users
    /\ vendorStatus = [v \in VendorIds |-> "active"]
    /\ vendorSession = {}
    /\ vendorFarmers = [v \in VendorIds |-> 0]
    /\ looked = [nin |-> [digits |-> 0, padded |-> FALSE], response |-> NoResponse]

Init == StoreInit /\ RegistryInit

Next ==
    \/ \E req \in DisburseRequests : process_disbursement(req)
    \/ \E pk \in FarmerIds : farmer_toggle_status(pk)
    \/ \E pk \in CenterIds : redemption_center_toggle_status(pk)
    \/ \E q \in 0..MaxQuantity, c \in CenterIds : incentive_create(q, c)
    \/ \E pk \in IncentiveIds, q \in 0..MaxQuantity, c \in CenterIds : incentive_edit(pk, q, c)
    \/ \E pk \in IncentiveIds : incentive_delete(pk)

Spec == Init /\ [][Next]_vars

\* The admin at work on incentives, centers and the Disbursement rows, while
\* center 1 disburses.
AdminDisburseRequests ==
    {[user |-> u, incentive_id |-> i, farmer_id |-> f, quantity |-> IntParam(q)] :
        u \in LoginCenters, i \in IncentiveIds, f \in FarmerIds, q \in {1, MaxQuantity}}

NextAdmin ==
    \/ \E req \in AdminDisburseRequests : process_disbursement(req)
    \/ \E q \in {1, MaxQuantity}, c \in CenterIds : incentive_create(q, c)
    \/ \E pk \in IncentiveIds, q \in {1, MaxQuantity}, c \in CenterIds : incentive_edit(pk, q, c)
    \/ \E pk \in IncentiveIds : incentive_delete(pk)
    \/ \E pk \in CenterIds : redemption_center_delete(pk)
    \/ \E pk \in 1..MaxDisbursements, posted \in PostedDisbursements :
          disbursement_admin_change(pk, posted)

SpecAdmin == Init /\ [][NextAdmin]_vars

\* ------------------------------------------- concurrent process_disbursement
\* The handler opens no transaction and takes no lock: each query of lines
\* 322-360 is a step of its own, and the steps of several requests interleave.
Running(req, pc) ==
    [pc |-> pc, request |-> req, incentive |-> {}, response |-> NoResponse]

Finished(r, response) ==
    [reqs EXCEPT ![r] = [@ EXCEPT !.pc = "done", !.response = response]]

Goto(r, pc) == [reqs EXCEPT ![r] = [@ EXCEPT !.pc = pc]]

\* lines 304-319
Begin(r, req) ==
    LET refused == CheckParameters(req.user, req.incentive_id, req.farmer_id, req.quantity) IN
    /\ reqs[r].pc = "idle"
    /\ reqs' = [reqs EXCEPT ![r] =
                   IF refused # NoResponse
                   THEN [Running(req, "done") EXCEPT !.response = refused]
                   ELSE Running(req, "get_incentive")]
    /\ UNCHANGED <<store, quantityEdited, granted, last, portal>>
    /\ UNCHANGED registry

\* line 322: get_object_or_404(Incentive, pk=incentive_id, redemption_center=...)
GetIncentive(r) ==
    LET req == reqs[r].request
        found == IncentiveRows(req.incentive_id, req.user) IN
    /\ reqs[r].pc = "get_incentive"
    /\ reqs' = IF req.incentive_id = NonNumericId THEN Finished(r, InvalidQuantity)
               ELSE IF found = {} THEN Finished(r, IncentiveNotFound)
               ELSE [reqs EXCEPT ![r] =
                        [@ EXCEPT !.pc = "check_remaining", !.incentive = found]]
    /\ UNCHANGED <<store, quantityEdited, granted, last, portal>>
    /\ UNCHANGED registry

LoadedIncentive(r) == CHOOSE i \in reqs[r].incentive : TRUE

\* lines 325-329
CheckRemaining(r) ==
    LET remaining == get_remaining_quantity(disbursements, LoadedIncentive(r)) IN
    /\ reqs[r].pc = "check_remaining"
    /\ reqs' = IF ExceedsRemaining(reqs[r].request.quantity.value, remaining)
               THEN Finished(r, InsufficientResponse(remaining))
               ELSE Goto(r, "get_farmer")
    /\ UNCHANGED <<store, quantityEdited, granted, last, portal>>
    /\ UNCHANGED registry

\* lines 332-338
GetFarmer(r) ==
    LET farmer_id == reqs[r].request.farmer_id IN
    /\ reqs[r].pc = "get_farmer"
    /\ reqs' = IF farmer_id = NonNumericId THEN Finished(r, InvalidQuantity)
               ELSE IF ~FarmerExists(farmer_id) THEN Finished(r, FarmerNotFound)
               ELSE IF FarmerNotActive(farmerStatus[farmer_id])
                    THEN Finished(r, FarmerInactive)
               ELSE Goto(r, "check_duplicate")
    /\ UNCHANGED <<store, quantityEdited, granted, last, portal>>
    /\ UNCHANGED registry

\* lines 341-344
CheckDuplicate(r) ==
    LET req == reqs[r].request IN
    /\ reqs[r].pc = "check_duplicate"
    /\ reqs' = IF AlreadyDisbursed(disbursements, req.incentive_id, req.farmer_id)
               THEN Finished(r, AlreadyReceived)
               ELSE Goto(r, "create")
    /\ UNCHANGED <<store, quantityEdited, granted, last, portal>>
    /\ UNCHANGED registry

\* lines 347-354
Create(r) ==
    LET req == reqs[r].request
        row == NewDisbursement(nextDisbursementId, LoadedIncentive(r), req.farmer_id,
                               req.quantity.value, req.user, req.user)
        created == DisbursementCreate(disbursements, row) IN
    /\ reqs[r].pc = "create"
    /\ nextDisbursementId <= MaxDisbursements
    /\ IF created.ok
       THEN /\ disbursements' = created.rows
            /\ nextDisbursementId' = nextDisbursementId + 1
            /\ reqs' = [reqs EXCEPT ![r] =
                           [@ EXCEPT !.pc = "respond",
                                     !.response = SuccessResponse(row.disbursement_id, 0)]]
       ELSE /\ UNCHANGED <<disbursements, nextDisbursementId>>
            /\ reqs' = Finished(r, StoreFault)
    /\ UNCHANGED <<centerStatus, farmerStatus, incentives, nextIncentiveId,
                   quantityEdited, granted, last>>
    /\ UNCHANGED portal
    /\ UNCHANGED registry

\* lines 356-361: the response, with the remaining quantity computed anew
Respond(r) ==
    LET req == reqs[r].request
        remaining == get_remaining_quantity(disbursements, LoadedIncentive(r)) IN
    /\ reqs[r].pc = "respond"
    /\ reqs' = Finished(r, SuccessResponse(reqs[r].response.disbursement_id, remaining))
    /\ granted' = [granted EXCEPT ![req.incentive_id] = @ + req.quantity.value]
    /\ UNCHANGED <<store, quantityEdited, last>>
    /\ UNCHANGED portal
    /\ UNCHANGED registry

\* One incentive of some quantity, allocated to center 1 and untouched so far.
InitConc ==
    /\ centerStatus = [c \in CenterIds |-> "active"]
    /\ farmerStatus = [f \in FarmerIds |-> "active"]
    /\ \E q \in 1..MaxQuantity :
          incentives = {[incentive_id |-> 1, quantity |-> q, redemption_center |-> 1]}
    /\ nextIncentiveId = 2
    /\ disbursements = {}
    /\ nextDisbursementId = 1
    /\ quantityEdited = {}
    /\ granted = [i \in IncentiveIds |-> 0]
    /\ last = FormResult("incentive_create", "saved", 1, 1)
    /\ reqs = [r \in Requests |-> IdleRequest]
    /\ session = Users
    /\ vendorStatus = [v \in VendorIds |-> "active"]
    /\ vendorSession = {}
    /\ vendorFarmers = [v \in VendorIds |-> 0]
    /\ looked = [nin |-> [digits |-> 0, padded |-> FALSE], response |-> NoResponse]
    /\ RegistryInit

NextConc ==
    \/ \E r \in Requests, req \in DisburseRequests : Begin(r, req)
    \/ \E r \in Requests : GetIncentive(r)
    \/ \E r \in Requests : CheckRemaining(r)
    \/ \E r \in Requests : GetFarmer(r)
    \/ \E r \in Requests : CheckDuplicate(r)
    \/ \E r \in Requests : Create(r)
    \/ \E r \in Requests : Respond(r)

SpecConc == InitConc /\ [][NextConc]_vars

\* ------------------------------------------------------- the farmer form
\* FarmerForm.__init__, lines 121-134: the LGAs the LGA field offers. For a
\* saved farmer that has a state they are the LGAs of that state, whatever
\* state is posted; otherwise the LGAs of the posted state, or none.
LgaQueryset(instance, state) ==
    IF instance # Absent /\ instance.state # Blank
    THEN {l \in LgaIds : LgaState[l] = instance.state}
    ELSE IF state # Blank
         THEN {l \in LgaIds : LgaState[l] = state}
    ELSE {}

\* FarmerForm.is_valid, of the fields state, LGA and group_type: each may be
\* left empty, the state is one of State.objects.all(), the LGA one of the LGAs
\* offered, the group type one of GroupType.objects.all()
FarmerFormValid(instance, state, lga, group_type) ==
    /\ state = Blank \/ state \in StateIds
    /\ lga = Blank \/ lga \in LgaQueryset(instance, state)
    /\ group_type = Blank \/ group_type \in groupTypes

FarmerFormResult(view, result, pk) == [view |-> view, result |-> result, pk |-> pk]

\* farmer_create (POST)
farmer_create(state, lga, group_type) ==
    /\ \E f \in FarmerIds : farmerPlace[f] = Absent
    /\ LET pk == CHOOSE f \in FarmerIds :
                    /\ farmerPlace[f] = Absent
                    /\ \A g \in FarmerIds : farmerPlace[g] = Absent => f <= g IN
       IF FarmerFormValid(Absent, state, lga, group_type)
       THEN /\ farmerPlace' = [farmerPlace EXCEPT ![pk] = [state |-> state, LGA |-> lga]]
            /\ farmerGroupType' = [farmerGroupType EXCEPT ![pk] = group_type]
            /\ last' = FarmerFormResult("farmer_create", "saved", pk)
       ELSE /\ UNCHANGED <<farmerPlace, farmerGroupType>>
            /\ last' = FarmerFormResult("farmer_create", "invalid", pk)
    /\ UNCHANGED <<store, quantityEdited, granted, reqs, portal>>
    /\ UNCHANGED <<vendorRegNo, vendorSave, groupTypes, groups, report>>

\* farmer_edit (POST)
farmer_edit(pk, state, lga, group_type) ==
    /\ FarmerExists(pk)
    /\ IF FarmerFormValid(farmerPlace[pk], state, lga, group_type)
       THEN /\ farmerPlace' = [farmerPlace EXCEPT ![pk] = [state |-> state, LGA |-> lga]]
            /\ farmerGroupType' = [farmerGroupType EXCEPT ![pk] = group_type]
            /\ last' = FarmerFormResult("farmer_edit", "saved", pk)
       ELSE /\ UNCHANGED <<farmerPlace, farmerGroupType>>
            /\ last' = FarmerFormResult("farmer_edit", "invalid", pk)
    /\ UNCHANGED <<store, quantityEdited, granted, reqs, portal>>
    /\ UNCHANGED <<vendorRegNo, vendorSave, groupTypes, groups, report>>

\* No farmer is registered yet.
InitFarmer ==
    /\ StoreInit
    /\ farmerPlace = [f \in FarmerIds |-> Absent]
    /\ vendorRegNo = [v \in VendorIds |-> VendorRow(RegNoLow + v - 1)]
    /\ vendorSave = [v \in VendorIds |-> IdleSave]
    /\ groupTypes = {}
    /\ groups = [g \in GroupIds |-> Blank]
    /\ farmerGroupType = [f \in FarmerIds |-> Blank]
    /\ report = IdleReport

NextFarmer ==
    \/ \E state \in StateIds \cup {Blank}, lga \in LgaIds \cup {Blank} :
          farmer_create(state, lga, Blank)
    \/ \E pk \in FarmerIds, state \in StateIds \cup {Blank}, lga \in LgaIds \cup {Blank} :
          farmer_edit(pk, state, lga, Blank)
    \/ \E pk \in FarmerIds : farmer_toggle_status(pk)

SpecFarmer == InitFarmer /\ [][NextFarmer]_vars

\* ------------------------------------------------------------ Vendor.save
\* The views that save a Vendor: vendor_create a new one, the others a row
\* they loaded.
VendorSaveViews == {"vendor_edit", "vendor_toggle_status", "vendor_credentials"}

\* A save that draws a number every time.
RegistrationNoNeverSet(registration_no) == FALSE

\* line 306: the negation of "if not self.vendor_registration_no"
RegistrationNoSet(registration_no) == registration_no # Blank

\* line 310: Vendor.objects.filter(vendor_registration_no=registration_no).exists()
RegistrationNoExists(registration_no) ==
    \E w \in VendorIds :
        vendorRegNo[w] # Absent /\ vendorRegNo[w].vendor_registration_no = registration_no

\* A column without the unique index.
RegistrationNoUnconstrained(v, registration_no) == FALSE

\* vendor_registration_no is unique=True: the INSERT or UPDATE is refused when
\* another row holds the number
RegistrationNoTaken(v, registration_no) ==
    \E w \in VendorIds \ {v} :
        vendorRegNo[w] # Absent /\ vendorRegNo[w].vendor_registration_no = registration_no

\* The numbers that no Vendor row holds.
UnusedNumbers == {n \in DrawnNumbers : ~RegistrationNoExists(n)}

VendorSaveResult(view, result, pk, registration_no) ==
    [view |-> view, result |-> result, pk |-> pk, registration_no |-> registration_no]

\* The view builds or loads the Vendor and calls save(); line 306
VendorSaveBegin(v, view) ==
    LET registration_no == IF vendorRegNo[v] = Absent THEN Blank
                           ELSE vendorRegNo[v].vendor_registration_no
        status == IF view = "vendor_toggle_status" THEN ToggledStatus(vendorStatus[v])
                  ELSE vendorStatus[v] IN
    /\ vendorSave[v].pc = "idle"
    /\ view = "vendor_create" <=> vendorRegNo[v] = Absent
    /\ vendorSave' = [vendorSave EXCEPT ![v] =
                         [pc |-> IF RegistrationNoSet(registration_no) THEN "write" ELSE "draw",
                          view |-> view, registration_no |-> registration_no,
                          vendor_status |-> status]]
    /\ UNCHANGED <<store, quantityEdited, granted, last, reqs, portal>>
    /\ UNCHANGED <<farmerPlace, vendorRegNo, groupTypes, groups, farmerGroupType, report>>

\* lines 308-312: one turn of the loop, with the number that randint gave
VendorSaveDraw(v, registration_no) ==
    /\ vendorSave[v].pc = "draw"
    /\ vendorSave' = IF ~RegistrationNoExists(registration_no)
                     THEN [vendorSave EXCEPT ![v].pc = "write",
                                             ![v].registration_no = registration_no]
                     ELSE vendorSave
    /\ UNCHANGED <<store, quantityEdited, granted, last, reqs, portal>>
    /\ UNCHANGED <<farmerPlace, vendorRegNo, groupTypes, groups, farmerGroupType, report>>

\* A turn of the loop that draws a number no Vendor holds.
VendorSaveDrawUnused(v) == \E n \in UnusedNumbers : VendorSaveDraw(v, n)

\* line 313: super().save(); the IntegrityError is caught by no view
VendorSaveWrite(v) ==
    LET s == vendorSave[v] IN
    /\ s.pc = "write"
    /\ IF RegistrationNoTaken(v, s.registration_no)
       THEN /\ UNCHANGED <<vendorRegNo, vendorStatus>>
            /\ last' = VendorSaveResult(s.view, "IntegrityError", v, s.registration_no)
       ELSE /\ vendorRegNo' = [vendorRegNo EXCEPT ![v] = VendorRow(s.registration_no)]
            /\ vendorStatus' = [vendorStatus EXCEPT ![v] = s.vendor_status]
            /\ last' = VendorSaveResult(s.view, "saved", v, s.registration_no)
    /\ vendorSave' = [vendorSave EXCEPT ![v] = IdleSave]
    /\ UNCHANGED <<store, quantityEdited, granted, reqs, session, vendorSession,
                   vendorFarmers, looked>>
    /\ UNCHANGED <<farmerPlace, groupTypes, groups, farmerGroupType, report>>

\* No vendor is registered yet.
InitVendor ==
    /\ StoreInit
    /\ farmerPlace = [f \in FarmerIds |-> [state |-> Blank, LGA |-> Blank]]
    /\ vendorRegNo = [v \in VendorIds |-> Absent]
    /\ vendorSave = [v \in VendorIds |-> IdleSave]
    /\ groupTypes = {}
    /\ groups = [g \in GroupIds |-> Blank]
    /\ farmerGroupType = [f \in FarmerIds |-> Blank]
    /\ report = IdleReport

NextVendor ==
    \/ \E v \in VendorIds, view \in VendorSaveViews \cup {"vendor_create"} :
          VendorSaveBegin(v, view)
    \/ \E v \in VendorIds, n \in DrawnNumbers : VendorSaveDraw(v, n)
    \/ \E v \in VendorIds : VendorSaveWrite(v)

SpecVendor == InitVendor /\ [][NextVendor]_vars

\* random.randint is fair: a loop that keeps drawing, while some number is
\* unused, draws an unused number at some time; and a save that left the loop
\* goes on to its write.
SpecVendorFair ==
    /\ SpecVendor
    /\ \A v \in VendorIds : SF_vars(VendorSaveDrawUnused(v))
    /\ \A v \in VendorIds : WF_vars(VendorSaveWrite(v))

\* ------------------------------------------------- groups and group types
\* A group type that is deleted whoever uses it.
GroupTypeUnprotected(pk) == FALSE

\* Group.group_type is on_delete=PROTECT: the delete of a GroupType that a
\* Group references raises ProtectedError, before any row is touched
GroupTypeProtected(pk) == \E g \in GroupIds : groups[g] = pk

GroupResult(view, result, pk) == [view |-> view, result |-> result, pk |-> pk]

\* group_type_create (POST)
group_type_create ==
    /\ groupTypes # GroupTypeIds
    /\ LET pk == CHOOSE t \in GroupTypeIds \ groupTypes :
                    \A u \in GroupTypeIds \ groupTypes : t <= u IN
       /\ groupTypes' = groupTypes \cup {pk}
       /\ last' = GroupResult("group_type_create", "saved", pk)
    /\ UNCHANGED <<store, quantityEdited, granted, reqs, portal>>
    /\ UNCHANGED <<farmerPlace, vendorRegNo, vendorSave, groups, farmerGroupType, report>>

\* group_type_delete (POST): Farmer.group_type is on_delete=SET_NULL
group_type_delete(pk) ==
    /\ pk \in groupTypes
    /\ IF GroupTypeProtected(pk)
       THEN /\ UNCHANGED <<groupTypes, farmerGroupType>>
            /\ last' = GroupResult("group_type_delete", "protected", pk)
       ELSE /\ groupTypes' = groupTypes \ {pk}
            /\ farmerGroupType' = [f \in FarmerIds |->
                                      IF farmerGroupType[f] = pk THEN Blank
                                      ELSE farmerGroupType[f]]
            /\ last' = GroupResult("group_type_delete", "deleted", pk)
    /\ UNCHANGED <<store, quantityEdited, granted, reqs, portal>>
    /\ UNCHANGED <<farmerPlace, vendorRegNo, vendorSave, groups, report>>

\* GroupForm.is_valid, of the group_type field: required, one of the GroupType rows
GroupFormValid(group_type) == group_type \in groupTypes

\* group_create (POST)
group_create(group_type) ==
    /\ \E g \in GroupIds : groups[g] = Blank
    /\ LET pk == CHOOSE g \in GroupIds :
                    /\ groups[g] = Blank
                    /\ \A h \in GroupIds : groups[h] = Blank => g <= h IN
       IF GroupFormValid(group_type)
       THEN /\ groups' = [groups EXCEPT ![pk] = group_type]
            /\ last' = GroupResult("group_create", "saved", pk)
       ELSE /\ UNCHANGED groups
            /\ last' = GroupResult("group_create", "invalid", pk)
    /\ UNCHANGED <<store, quantityEdited, granted, reqs, portal>>
    /\ UNCHANGED <<farmerPlace, vendorRegNo, vendorSave, groupTypes, farmerGroupType, report>>

\* group_edit (POST)
group_edit(pk, group_type) ==
    /\ groups[pk] # Blank
    /\ IF GroupFormValid(group_type)
       THEN /\ groups' = [groups EXCEPT ![pk] = group_type]
            /\ last' = GroupResult("group_edit", "saved", pk)
       ELSE /\ UNCHANGED groups
            /\ last' = GroupResult("group_edit", "invalid", pk)
    /\ UNCHANGED <<store, quantityEdited, granted, reqs, portal>>
    /\ UNCHANGED <<farmerPlace, vendorRegNo, vendorSave, groupTypes, farmerGroupType, report>>

\* group_delete (POST); the members of the group are not part of the state
group_delete(pk) ==
    /\ groups[pk] # Blank
    /\ groups' = [groups EXCEPT ![pk] = Blank]
    /\ last' = GroupResult("group_delete", "deleted", pk)
    /\ UNCHANGED <<store, quantityEdited, granted, reqs, portal>>
    /\ UNCHANGED <<farmerPlace, vendorRegNo, vendorSave, groupTypes, farmerGroupType, report>>

NextGroup ==
    \/ group_type_create
    \/ \E pk \in GroupTypeIds : group_type_delete(pk)
    \/ \E t \in GroupTypeIds \cup {Blank} : group_create(t)
    \/ \E pk \in GroupIds, t \in GroupTypeIds \cup {Blank} : group_edit(pk, t)
    \/ \E pk \in GroupIds : group_delete(pk)
    \/ \E pk \in FarmerIds, t \in GroupTypeIds \cup {Blank} :
          farmer_edit(pk, farmerPlace[pk].state, farmerPlace[pk].LGA, t)

SpecGroup == Init /\ [][NextGroup]_vars

\* ------------------------------------------------ a report row in the making
\* The loop body of the inventory and allocation reports
\* (redemption_center_dashboard lines 97-107, redemption_center_allocations
\* lines 187-197, redemption_center_detail lines 684-693): two queries, first
\* the remaining quantity, then the disbursed quantity, in no transaction.
ReportViews ==
    {"redemption_center_dashboard", "redemption_center_allocations",
     "redemption_center_detail"}

\* remaining = incentive.get_remaining_quantity(); the dashboard goes on to the
\* second query only if remaining > 0
ReadRemaining(view, incentive) ==
    LET remaining == get_remaining_quantity(disbursements, incentive) IN
    /\ report.pc = "idle"
    /\ incentive \in incentives
    /\ report' = IF view = "redemption_center_dashboard" /\ ~HasRemaining(remaining)
                 THEN [pc |-> "done", view |-> view, rows |-> {}]
                 ELSE [pc |-> "read_disbursed", view |-> view, incentive |-> incentive,
                       remaining |-> remaining]
    /\ UNCHANGED <<store, quantityEdited, granted, last, reqs, portal>>
    /\ UNCHANGED <<farmerPlace, vendorRegNo, vendorSave, groupTypes, groups, farmerGroupType>>

\* disbursed = incentive.get_disbursed_quantity(), and the row of the report
ReadDisbursed ==
    /\ report.pc = "read_disbursed"
    /\ report' = [pc |-> "done", view |-> report.view,
                  rows |-> {[incentive |-> report.incentive.incentive_id,
                             total_quantity |-> report.incentive.quantity,
                             disbursed_quantity |->
                                 get_disbursed_quantity(disbursements, report.incentive),
                             remaining_quantity |-> report.remaining]}]
    /\ UNCHANGED <<store, quantityEdited, granted, last, reqs, portal>>
    /\ UNCHANGED <<farmerPlace, vendorRegNo, vendorSave, groupTypes, groups, farmerGroupType>>

\* The page is rendered and the request is over.
Render ==
    /\ report.pc = "done"
    /\ report' = IdleReport
    /\ UNCHANGED <<store, quantityEdited, granted, last, reqs, portal>>
    /\ UNCHANGED <<farmerPlace, vendorRegNo, vendorSave, groupTypes, groups, farmerGroupType>>

\* ------------------------------------------------------------ the portals
\* A redirect; message is what messages.error leaves for the next page.
Redirect(location, message) == [status |-> 302, error |-> message, location |-> location]

AccessDeniedRedirect(location) ==
    Redirect(location, "Access denied")

InactiveRedirect(location) ==
    Redirect(location, "Your account is inactive")

\* A rendered page with the context the view computed.
Page(context) == [status |-> 200, error |-> "", context |-> context]

PortalResult(view, user, response) == [view |-> view, user |-> user, response |-> response]

OwnIncentives(center) == {i \in incentives : i.redemption_center = center}

\* Disbursement.objects.filter(redemption_center=redemption_center)
CenterDisbursements(center) == {d \in disbursements : d.redemption_center = center}

RECURSIVE SumIncentiveQuantity(_)
SumIncentiveQuantity(rows) ==
    IF rows = {} THEN 0
    ELSE LET r == CHOOSE x \in rows : TRUE
         IN  r.quantity + SumIncentiveQuantity(rows \ {r})

\* A row of an inventory or allocation report.
ReportRow(incentive) ==
    [incentive |-> incentive.incentive_id,
     total_quantity |-> incentive.quantity,
     disbursed_quantity |-> get_disbursed_quantity(disbursements, incentive),
     remaining_quantity |-> get_remaining_quantity(disbursements, incentive)]

\* redemption_center_dashboard, lines 88-147
DashboardContext(center) ==
    [inventory |-> {ReportRow(i) : i \in {j \in OwnIncentives(center) :
                                            HasRemaining(get_remaining_quantity(disbursements, j))}},
     total_allocations |-> Cardinality(OwnIncentives(center)),
     total_items_allocated |-> SumIncentiveQuantity(OwnIncentives(center)),
     total_items_disbursed |-> SumQuantity(CenterDisbursements(center)),
     total_items_remaining |-> SumIncentiveQuantity(OwnIncentives(center))
                                  - SumQuantity(CenterDisbursements(center))]

\* redemption_center_allocations, lines 166-206 (without search and date filter)
AllocationsContext(center) ==
    [allocations |-> {ReportRow(i) : i \in OwnIncentives(center)}]

\* redemption_center_disburse, lines 225-241
DisburseContext(center) ==
    [available_incentives |->
        {[incentive |-> i.incentive_id,
          remaining_quantity |-> get_remaining_quantity(disbursements, i)] :
            i \in {j \in OwnIncentives(center) : HasRemaining(get_remaining_quantity(disbursements, j))}}]

\* redemption_center_disbursements, lines 385-440 (without search and filters)
DisbursementsContext(center) ==
    [disbursements |-> CenterDisbursements(center),
     total_quantity_disbursed |-> SumQuantity(CenterDisbursements(center))]

\* redemption_center_profile, lines 458-473
ProfileContext(center) ==
    [total_allocations |-> Cardinality(OwnIncentives(center)),
     total_disbursements |-> Cardinality(CenterDisbursements(center))]

\* redemption_center_detail, lines 677-719 (without the latest disbursements
\* and the farmers served)
CenterDetailContext(center) ==
    [incentives |-> {ReportRow(i) : i \in OwnIncentives(center)},
     inventory |-> {ReportRow(i) : i \in {j \in OwnIncentives(center) :
                       HasRemaining(get_remaining_quantity(disbursements, j))}},
     total_disbursements |-> Cardinality(CenterDisbursements(center)),
     total_items_disbursed |-> SumQuantity(CenterDisbursements(center)),
     total_allocations |-> Cardinality(OwnIncentives(center)),
     total_items_allocated |-> SumIncentiveQuantity(OwnIncentives(center))]

CenterPages ==
    {"redemption_center_dashboard", "redemption_center_allocations",
     "redemption_center_disburse", "redemption_center_disbursements",
     "redemption_center_profile"}

CenterPageContext(view, center) ==
    CASE view = "redemption_center_dashboard" -> DashboardContext(center)
      [] view = "redemption_center_allocations" -> AllocationsContext(center)
      [] view = "redemption_center_disburse" -> DisburseContext(center)
      [] view = "redemption_center_disbursements" -> DisbursementsContext(center)
      [] view = "redemption_center_profile" -> ProfileContext(center)

\* A gate that turns the inactive center away and leaves its session alone.
CenterGateWithoutLogout(user) ==
    IF user \notin session THEN [response |-> LoginRequired, session |-> session]
    ELSE IF ~HasProfile(user)
         THEN [response |-> AccessDeniedRedirect("redemption_center_login"), session |-> session]
    ELSE IF centerStatus[user] # "active"
         THEN [response |-> InactiveRedirect("redemption_center_login"), session |-> session]
    ELSE [response |-> NoResponse, session |-> session]

\* The head of every page view of the redemption-center portal (lines 72-86,
\* 150-164, 209-223, 369-383, 443-457): @login_required, the profile check,
\* and the status check that logs the inactive center out. NoResponse when the
\* view goes on to its queries.
CenterGate(user) ==
    IF user \notin session THEN [response |-> LoginRequired, session |-> session]
    ELSE IF ~HasProfile(user)
         THEN [response |-> AccessDeniedRedirect("redemption_center_login"), session |-> session]
    ELSE IF centerStatus[user] # "active"
         THEN [response |-> InactiveRedirect("redemption_center_login"),
               session |-> session \ {user}]
    ELSE [response |-> NoResponse, session |-> session]

\* The five page views of the redemption-center portal.
redemption_center_page(view, user) ==
    LET gate == CenterGate(user) IN
    /\ session' = gate.session
    /\ last' = PortalResult(view, user,
                            IF gate.response # NoResponse THEN gate.response
                            ELSE Page(CenterPageContext(view, user)))
    /\ UNCHANGED <<store, quantityEdited, granted, reqs,
                   vendorStatus, vendorSession, vendorFarmers, looked>>
    /\ UNCHANGED registry

\* redemption_center_detail: the page of a center in the admin
redemption_center_detail(pk) ==
    /\ pk \in CenterIds
    /\ centerStatus[pk] # "deleted"
    /\ last' = [view |-> "redemption_center_detail", pk |-> pk,
                response |-> Page(CenterDetailContext(pk))]
    /\ UNCHANGED <<store, quantityEdited, granted, reqs>>
    /\ UNCHANGED portal
    /\ UNCHANGED registry

\* redemption_center_login, lines 23-60; a POST carries the credentials of the
\* user, right or wrong
redemption_center_login(user, password_ok) ==
    /\ IF user \in session /\ HasProfile(user)
       THEN IF centerStatus[user] = "active"
            THEN /\ session' = session
                 /\ last' = PortalResult("redemption_center_login", user,
                                         Redirect("redemption_center_dashboard", ""))
            ELSE /\ session' = session \ {user}
                 /\ last' = PortalResult("redemption_center_login", user,
                                         InactiveRedirect("redemption_center_login"))
       ELSE IF ~password_ok
            THEN /\ session' = session
                 /\ last' = PortalResult("redemption_center_login", user,
                                         Page([error |-> "Invalid username or password."]))
       ELSE IF ~HasProfile(user)
            THEN /\ session' = session
                 /\ last' = PortalResult("redemption_center_login", user,
                                         Page([error |-> "No login credentials"]))
       ELSE IF centerStatus[user] # "active"
            THEN /\ session' = session
                 /\ last' = PortalResult("redemption_center_login", user,
                                         Page([error |-> "Your account is inactive"]))
       ELSE /\ session' = session \cup {user}
            /\ last' = PortalResult("redemption_center_login", user,
                                    Redirect("redemption_center_dashboard", "Welcome back"))
    /\ UNCHANGED <<store, quantityEdited, granted, reqs,
                   vendorStatus, vendorSession, vendorFarmers, looked>>
    /\ UNCHANGED registry

\* redemption_center_logout, lines 63-69
redemption_center_logout(user) ==
    /\ IF user \notin session
       THEN /\ session' = session
            /\ last' = PortalResult("redemption_center_logout", user, LoginRequired)
       ELSE /\ session' = IF HasProfile(user) THEN session \ {user} ELSE session
            /\ last' = PortalResult("redemption_center_logout", user,
                                    Redirect("redemption_center_login", ""))
    /\ UNCHANGED <<store, quantityEdited, granted, reqs,
                   vendorStatus, vendorSession, vendorFarmers, looked>>
    /\ UNCHANGED registry

\* ---- lookup_farmer_by_nin
\* A national ID as it is posted: its digits (0: none), possibly with blanks
\* around them. The NIN of farmer f is the digits f.
Nin(digits, padded) == [digits |-> digits, padded |-> padded]
NinOf(farmer_id) == Nin(farmer_id, FALSE)

\* request.POST.get('nin', '').strip()
Strip(nin) == Nin(nin.digits, FALSE)

EmptyNin == Nin(0, FALSE)

PostedNins == {Nin(d, p) : d \in 0..(NumFarmers + 1), p \in BOOLEAN}

\* Farmer.objects.get(NIN=nin): NIN is unique, so at most one row
FarmersByNin(nin) == {f \in FarmerIds : NinOf(f) = nin}

NinRequired == ErrorResponse(400, "NIN is required")
NoFarmerFound == [status |-> 404, error |-> "No farmer found with NIN", farmer |-> {}]
LookupFarmerInactive ==
    [status |-> 400, error |-> "Farmer account is inactive. Only active farmers can receive incentives.",
     farmer |-> {}]
FarmerFound(farmer_id) ==
    [status |-> 200, error |-> "",
     farmer |-> {[farmer_id |-> farmer_id, status |-> farmerStatus[farmer_id]]}]

\* lines 244-297, as the response
Lookup(user, posted) ==
    LET nin == Strip(posted)
        found == FarmersByNin(nin) IN
    IF user \notin session THEN LoginRequired
    ELSE IF ~HasProfile(user) THEN AccessDenied
    ELSE IF nin = EmptyNin THEN NinRequired
    ELSE IF found = {} THEN NoFarmerFound
    ELSE LET farmer == CHOOSE f \in found : TRUE IN
         IF farmerStatus[farmer] # "active" THEN LookupFarmerInactive
         ELSE FarmerFound(farmer)

LookupResult(user, nin, response) ==
    [view |-> "lookup_farmer_by_nin", user |-> user, nin |-> nin, response |-> response]

lookup_farmer_by_nin(user, nin) ==
    /\ last' = LookupResult(user, nin, Lookup(user, nin))
    /\ looked' = [nin |-> nin, response |-> Lookup(user, nin)]
    /\ UNCHANGED <<store, quantityEdited, granted, reqs,
                   session, vendorStatus, vendorSession, vendorFarmers>>
    /\ UNCHANGED registry

\* ---- the vendor portal
\* A vendor-portal user that is linked to no vendor.
VendorUsers == VendorLogins \cup {NoProfile}

\* hasattr(request.user, 'vendor_profile')
HasVendorProfile(user) == user \in VendorLogins /\ vendorRegNo[user] # Absent

VendorPages ==
    {"vendor_dashboard", "vendor_farmers_list", "vendor_farmer_create",
     "vendor_farmer_detail", "vendor_profile"}

\* What the vendor pages show: the farmers the vendor registered.
VendorPageContext(view, vendor) ==
    CASE view = "vendor_dashboard" -> [total_farmers |-> vendorFarmers[vendor]]
      [] view = "vendor_farmers_list" -> [farmers |-> 1..vendorFarmers[vendor]]
      [] view = "vendor_farmer_create" -> [form |-> "FarmerForm"]
      [] view = "vendor_farmer_detail" -> [farmer |-> 1..vendorFarmers[vendor]]
      [] view = "vendor_profile" -> [total_farmers |-> vendorFarmers[vendor]]

\* The head of every page view of the vendor portal (views.py lines 1088-1102,
\* 1127-1141, 1182-1196, 1221-1235, 1245-1259).
VendorGate(user) ==
    IF user \notin vendorSession THEN [response |-> LoginRequired, session |-> vendorSession]
    ELSE IF ~HasVendorProfile(user)
         THEN [response |-> AccessDeniedRedirect("vendor_login"), session |-> vendorSession]
    ELSE IF vendorStatus[user] # "active"
         THEN [response |-> InactiveRedirect("vendor_login"),
               session |-> vendorSession \ {user}]
    ELSE [response |-> NoResponse, session |-> vendorSession]

\* The vendor's page views; posted: a valid FarmerForm is POSTed to
\* vendor_farmer_create, which saves one Farmer for the vendor.
vendor_page(view, user, posted) ==
    LET gate == VendorGate(user)
        saves == gate.response = NoResponse /\ view = "vendor_farmer_create" /\ posted IN
    /\ posted => view = "vendor_farmer_create"
    /\ saves => vendorFarmers[user] < MaxRegistered
    /\ vendorSession' = gate.session
    /\ vendorFarmers' = IF saves THEN [vendorFarmers EXCEPT ![user] = @ + 1]
                        ELSE vendorFarmers
    /\ last' = PortalResult(view, user,
                            IF gate.response # NoResponse THEN gate.response
                            ELSE IF saves THEN Redirect("vendor_farmers_list", "registered")
                            ELSE Page(VendorPageContext(view, user)))
    /\ UNCHANGED <<store, quantityEdited, granted, reqs, session, vendorStatus, looked>>
    /\ UNCHANGED registry

\* vendor_login, views.py lines 1039-1076
vendor_login(user, password_ok) ==
    /\ IF user \in vendorSession /\ HasVendorProfile(user)
       THEN IF vendorStatus[user] = "active"
            THEN /\ vendorSession' = vendorSession
                 /\ last' = PortalResult("vendor_login", user, Redirect("vendor_dashboard", ""))
            ELSE /\ vendorSession' = vendorSession \ {user}
                 /\ last' = PortalResult("vendor_login", user, InactiveRedirect("vendor_login"))
       ELSE IF ~password_ok
            THEN /\ vendorSession' = vendorSession
                 /\ last' = PortalResult("vendor_login", user,
                                         Page([error |-> "Invalid username or password."]))
       ELSE IF ~HasVendorProfile(user)
            THEN /\ vendorSession' = vendorSession
                 /\ last' = PortalResult("vendor_login", user,
                                         Page([error |-> "No login credentials"]))
       ELSE IF vendorStatus[user] # "active"
            THEN /\ vendorSession' = vendorSession
                 /\ last' = PortalResult("vendor_login", user,
                                         Page([error |-> "Your account is inactive"]))
       ELSE /\ vendorSession' = vendorSession \cup {user}
            /\ last' = PortalResult("vendor_login", user,
                                    Redirect("vendor_dashboard", "Welcome back"))
    /\ UNCHANGED <<store, quantityEdited, granted, reqs, session, vendorStatus,
                   vendorFarmers, looked>>
    /\ UNCHANGED registry

\* vendor_logout, views.py lines 1079-1085
vendor_logout(user) ==
    /\ IF user \notin vendorSession
       THEN /\ vendorSession' = vendorSession
            /\ last' = PortalResult("vendor_logout", user, LoginRequired)
       ELSE /\ vendorSession' = IF HasVendorProfile(user)
                                THEN vendorSession \ {user} ELSE vendorSession
            /\ last' = PortalResult("vendor_logout", user, Redirect("vendor_login", ""))
    /\ UNCHANGED <<store, quantityEdited, granted, reqs, session, vendorStatus,
                   vendorFarmers, looked>>
    /\ UNCHANGED registry

\* vendor_toggle_status, views.py lines 488-504
vendor_toggle_status(pk) ==
    /\ pk \in VendorIds
    /\ vendorStatus' = [vendorStatus EXCEPT ![pk] = ToggledStatus(@)]
    /\ last' = AdminResult("vendor_toggle_status", "saved")
    /\ UNCHANGED <<store, quantityEdited, granted, reqs, session, vendorSession,
                   vendorFarmers, looked>>
    /\ UNCHANGED registry

\* The requests a center posts from its disburse page: one unit of incentive 1.
PortalDisburseRequests ==
    [user : Users, incentive_id : {1}, farmer_id : FarmerIds, quantity : {IntParam(1)}]

\* One incentive allocated to center 1; nobody is logged in to either portal
\* but the users that belong to neither (staff, logged in elsewhere).
InitPortal ==
    /\ centerStatus = [c \in CenterIds |-> "active"]
    /\ farmerStatus = [f \in FarmerIds |-> "active"]
    /\ incentives = {[incentive_id |-> 1, quantity |-> MaxQuantity, redemption_center |-> 1]}
    /\ nextIncentiveId = 2
    /\ disbursements = {}
    /\ nextDisbursementId = 1
    /\ quantityEdited = {}
    /\ granted = [i \in IncentiveIds |-> 0]
    /\ last = FormResult("incentive_create", "saved", 1, 1)
    /\ reqs = [r \in Requests |-> IdleRequest]
    /\ session = {NoProfile}
    /\ vendorStatus = [v \in VendorIds |-> "active"]
    /\ vendorSession = {NoProfile}
    /\ vendorFarmers = [v \in VendorIds |-> 0]
    /\ looked = [nin |-> EmptyNin, response |-> NoResponse]
    /\ RegistryInit

NextPortal ==
    \/ \E u \in Users, ok \in BOOLEAN : redemption_center_login(u, ok)
    \/ \E u \in Users : redemption_center_logout(u)
    \/ \E view \in CenterPages, u \in Users : redemption_center_page(view, u)
    \/ \E req \in PortalDisburseRequests : process_disbursement(req)
    \/ \E pk \in LoginCenters : redemption_center_toggle_status(pk)
    \/ \E u \in VendorUsers, ok \in BOOLEAN : vendor_login(u, ok)
    \/ \E u \in VendorUsers : vendor_logout(u)
    \/ \E view \in VendorPages, u \in VendorUsers, posted \in BOOLEAN : vendor_page(view, u, posted)
    \/ \E pk \in VendorLogins : vendor_toggle_status(pk)

SpecPortal == InitPortal /\ [][NextPortal]_vars

\* A report is computed while center 1 disburses from its incentive.
NextReport ==
    \/ \E view \in ReportViews, i \in incentives : ReadRemaining(view, i)
    \/ ReadDisbursed
    \/ Render
    \/ \E req \in AdminDisburseRequests : process_disbursement(req)

SpecReport == InitConc /\ [][NextReport]_vars

\* The reports of a center and of the admin, while incentives are allocated,
\* edited and disbursed.
ReportPages ==
    {"redemption_center_dashboard", "redemption_center_allocations",
     "redemption_center_disburse"}

NextInventory ==
    \/ \E req \in AdminDisburseRequests : process_disbursement(req)
    \/ \E q \in {1, MaxQuantity}, c \in CenterIds : incentive_create(q, c)
    \/ \E pk \in IncentiveIds, q \in {1, MaxQuantity}, c \in CenterIds : incentive_edit(pk, q, c)
    \/ \E view \in ReportPages, u \in LoginCenters : redemption_center_page(view, u)
    \/ \E pk \in CenterIds : redemption_center_detail(pk)

SpecInventory == Init /\ [][NextInventory]_vars

\* The disburse page at work: the center is logged in, looks farmers up and
\* posts disbursements of the one incentive, while the admin toggles farmers.
InitLookup ==
    /\ centerStatus = [c \in CenterIds |-> "active"]
    /\ farmerStatus = [f \in FarmerIds |-> "active"]
    /\ incentives = {[incentive_id |-> 1, quantity |-> MaxQuantity, redemption_center |-> 1]}
    /\ nextIncentiveId = 2
    /\ disbursements = {}
    /\ nextDisbursementId = 1
    /\ quantityEdited = {}
    /\ granted = [i \in IncentiveIds |-> 0]
    /\ last = FormResult("incentive_create", "saved", 1, 1)
    /\ reqs = [r \in Requests |-> IdleRequest]
    /\ session = Users
    /\ vendorStatus = [v \in VendorIds |-> "active"]
    /\ vendorSession = {NoProfile}
    /\ vendorFarmers = [v \in VendorIds |-> 0]
    /\ looked = [nin |-> EmptyNin, response |-> NoResponse]
    /\ RegistryInit

NextLookup ==
    \/ \E u \in Users, nin \in PostedNins : lookup_farmer_by_nin(u, nin)
    \/ \E req \in PortalDisburseRequests : process_disbursement(req)
    \/ \E pk \in FarmerIds : farmer_toggle_status(pk)

SpecLookup == InitLookup /\ [][NextLookup]_vars

\* ======================================================= verified properties
\* The state right after a process_disbursement request: the request, its
\* response, and the Disbursement rows as they were before it.
Processed == last.view = "process_disbursement"

Succeeded == Processed /\ last.response.status = 200

RowsBefore ==
    IF Succeeded
    THEN {d \in disbursements : d.disbursement_id # last.response.disbursement_id}
    ELSE disbursements

QuantitySum(incentive_id, rows) ==
    SumQuantity({d \in rows : d.incentive = incentive_id})

PairRows(incentive_id, farmer_id, rows) ==
    {d \in rows : d.incentive = incentive_id /\ d.farmer = farmer_id}

\* The request passed the parameter checks: a caller with a center, both ids
\* (numbers), an integer quantity >= 1.
WellFormed(req) ==
    /\ req.user \in LoginCenters
    /\ req.incentive_id >= 1 /\ req.farmer_id >= 1
    /\ req.quantity.isint /\ req.quantity.value >= 1

OwnedIncentive(req) ==
    {i \in incentives : i.incentive_id = req.incentive_id /\ i.redemption_center = req.user}

\* C1: for each Incentive, the quantities of the Disbursements that reference it
\* sum to at most the Incentive's total quantity.
C1_DisbursedWithinQuantity ==
    \A i \in incentives : QuantitySum(i.incentive_id, disbursements) <= i.quantity

\* C2: with requests running one after another, no (Incentive, Farmer) pair has
\* two Disbursements, and process_disbursement never gets as far as inserting a
\* row for a pair that already has one: such a request is refused by the
\* handler's own check, never by the store.
C2_OneDisbursementPerPair ==
    /\ \A d1, d2 \in disbursements :
          (d1.incentive = d2.incentive /\ d1.farmer = d2.farmer) => d1 = d2
    /\ Succeeded => PairRows(last.request.incentive_id, last.request.farmer_id, RowsBefore) = {}
    /\ Processed => last.response # StoreFault

C2_Witness ==
    /\ Processed /\ last.response = AlreadyReceived
    /\ Cardinality(PairRows(last.request.incentive_id, last.request.farmer_id,
                            disbursements)) = 1

\* C3: for an Incentive whose quantity no edit has changed, the remaining
\* quantity is the quantity minus the quantities of the successful
\* process_disbursement calls, and it is not negative.
C3_RemainingIsQuantityMinusGranted ==
    \A i \in incentives :
        i.incentive_id \notin quantityEdited =>
            /\ get_remaining_quantity(disbursements, i) = i.quantity - granted[i.incentive_id]
            /\ get_remaining_quantity(disbursements, i) >= 0

C3_Witness ==
    /\ Succeeded
    /\ \E i \in incentives :
          /\ i.incentive_id = last.request.incentive_id
          /\ i.incentive_id \notin quantityEdited
          /\ granted[i.incentive_id] = i.quantity
          /\ Cardinality(DisbursementsOf(disbursements, i.incentive_id)) = 2

\* C4: concurrent requests against one Incentive with remaining quantity R,
\* each by the owning center, for a different active farmer without a prior
\* disbursement and for the same quantity q: once all have answered, exactly
\* floor(R/q) of them (all of them, if they are fewer) succeeded, the others
\* were refused for insufficient quantity, and the remaining quantity is
\* R - successes * q and not negative.
AllAnswered == \A r \in Requests : reqs[r].pc = "done"

SameQuantityRace(i) ==
    /\ \A r \in Requests :
          /\ WellFormed(reqs[r].request)
          /\ reqs[r].request.user = i.redemption_center
          /\ reqs[r].request.incentive_id = i.incentive_id
          /\ reqs[r].request.farmer_id \in FarmerIds
          /\ reqs[r].request.quantity = reqs[1].request.quantity
    /\ \A r1, r2 \in Requests :
          r1 # r2 => reqs[r1].request.farmer_id # reqs[r2].request.farmer_id

Least(a, b) == IF a <= b THEN a ELSE b

C4_ConcurrentRequestsFitRemaining ==
    \A i \in incentives :
        (AllAnswered /\ SameQuantityRace(i)) =>
            LET q == reqs[1].request.quantity.value
                successes == {r \in Requests : reqs[r].response.status = 200}
                expected == Least(NumRequests, i.quantity \div q) IN
            /\ Cardinality(successes) = expected
            /\ \A r \in Requests \ successes :
                  reqs[r].response.error = "Insufficient quantity"
            /\ i.quantity - QuantitySum(i.incentive_id, disbursements)
                  = i.quantity - expected * q
            /\ i.quantity - QuantitySum(i.incentive_id, disbursements) >= 0

\* C5: also when the requests interleave, no (Incentive, Farmer) pair has two
\* Disbursements: the second insert for a pair is refused by the store.
C5_StoreKeepsPairsUnique ==
    \A d1, d2 \in disbursements :
        (d1.incentive = d2.incentive /\ d1.farmer = d2.farmer)
            => d1.disbursement_id = d2.disbursement_id

C5_Witness ==
    \E r1, r2 \in Requests :
        /\ r1 # r2
        /\ reqs[r1].pc = "done" /\ reqs[r2].pc = "done"
        /\ reqs[r1].request.incentive_id = reqs[r2].request.incentive_id
        /\ reqs[r1].request.farmer_id = reqs[r2].request.farmer_id
        /\ reqs[r1].response.status = 200
        /\ reqs[r2].response = StoreFault

\* C6: a request with both ids and an integer quantity >= 1 is answered with
\* the reason of the first check that fails, in the order: incentive found for
\* the caller's center, quantity within the remaining quantity, farmer found,
\* farmer active, no Disbursement for the pair yet; and the five reasons differ.
CheckPasses(k, req, rows) ==
    CASE k = 1 -> OwnedIncentive(req) # {}
      [] k = 2 -> \A i \in OwnedIncentive(req) :
                     req.quantity.value <= i.quantity - QuantitySum(i.incentive_id, rows)
      [] k = 3 -> req.farmer_id \in FarmerIds
      [] k = 4 -> req.farmer_id \in FarmerIds => farmerStatus[req.farmer_id] = "active"
      [] k = 5 -> PairRows(req.incentive_id, req.farmer_id, rows) = {}

FailingChecks(req, rows) == {k \in 1..5 : ~CheckPasses(k, req, rows)}

FirstFailingCheck(req, rows) ==
    CHOOSE k \in FailingChecks(req, rows) : \A j \in FailingChecks(req, rows) : k <= j

ReasonOfCheck ==
    <<"An error occurred: No Incentive matches the given query.",
      "Insufficient quantity",
      "An error occurred: No Farmer matches the given query.",
      "Farmer account is inactive",
      "This farmer has already received this incentive">>

C6_FirstFailingCheckIsReported ==
    /\ \A j, k \in 1..5 : j # k => ReasonOfCheck[j] # ReasonOfCheck[k]
    /\ (Processed /\ WellFormed(last.request)) =>
          IF FailingChecks(last.request, RowsBefore) = {}
          THEN last.response.status = 200
          ELSE /\ last.response.status # 200
               /\ last.response.error
                     = ReasonOfCheck[FirstFailingCheck(last.request, RowsBefore)]

\* a request that fails two checks at once, answered with the earlier reason
C6_Witness ==
    /\ Processed /\ WellFormed(last.request)
    /\ Cardinality(FailingChecks(last.request, RowsBefore)) >= 2
    /\ 5 \in FailingChecks(last.request, RowsBefore)
    /\ last.response.error = "Insufficient quantity"

\* The request named a pair that had a Disbursement before it ran, and came
\* from the center that made that Disbursement.
RepeatedPair ==
    /\ Processed /\ WellFormed(last.request)
    /\ \E d \in PairRows(last.request.incentive_id, last.request.farmer_id, RowsBefore) :
          d.redemption_center = last.request.user

\* C7, as claimed: after a successful disbursement for (incentive, farmer),
\* every later request for the same pair is answered with the
\* duplicate-disbursement reason, whatever its quantity, and creates no row.
C7_RepeatAlwaysReportsDuplicate ==
    RepeatedPair => (last.response = AlreadyReceived /\ disbursements = RowsBefore)

\* C7, amended: every later request for the same pair fails and creates no row;
\* its reason is the duplicate-disbursement reason whenever the checks that
\* come first pass (the incentive is still the caller's, the quantity is
\* within the remaining quantity, the farmer is active).
C7_RepeatNeverDisburses ==
    RepeatedPair =>
        /\ last.response.status # 200
        /\ disbursements = RowsBefore
        /\ (\A k \in 1..4 : CheckPasses(k, last.request, RowsBefore))
              => last.response = AlreadyReceived

\* the repeated request asked for another quantity than the first one got
C7_Witness ==
    /\ RepeatedPair /\ last.response = AlreadyReceived
    /\ \E d \in PairRows(last.request.incentive_id, last.request.farmer_id, RowsBefore) :
          d.quantity # last.request.quantity.value

\* C8: a request naming an incentive of another center is answered exactly as
\* one naming an incentive id that does not exist, changes nothing, and the
\* answer is a not-found result (404), no permission error and no fault (500).
AbsentIncentivePk == MaxIncentives + 1

NamesForeignIncentive(req) ==
    \E i \in incentives : i.incentive_id = req.incentive_id /\ i.redemption_center # req.user

C8_ForeignIncentiveIsNotFound ==
    (Processed /\ WellFormed(last.request) /\ NamesForeignIncentive(last.request)) =>
        /\ last.response = Disburse(last.request.user, AbsentIncentivePk,
                                    last.request.farmer_id, last.request.quantity).response
        /\ disbursements = RowsBefore
        /\ last.response.status = 404

\* C9: a request of the owning center for an active farmer without a prior
\* disbursement, whose quantity is the whole remaining quantity, succeeds and
\* leaves 0 remaining; every request of that center against the incentive that
\* follows it, for another farmer and a quantity >= 1, is refused for
\* insufficient quantity, with 0 reported as remaining.
TookAllRemaining(i) ==
    /\ Processed /\ WellFormed(last.request)
    /\ i \in OwnedIncentive(last.request)
    /\ last.request.quantity.value = i.quantity - QuantitySum(i.incentive_id, RowsBefore)
    /\ last.request.farmer_id \in FarmerIds
    /\ farmerStatus[last.request.farmer_id] = "active"
    /\ PairRows(i.incentive_id, last.request.farmer_id, RowsBefore) = {}

C9_ExactRemainingEmptiesIncentive ==
    \A i \in incentives :
        TookAllRemaining(i) =>
            /\ last.response.status = 200
            /\ last.response.remaining_quantity = 0
            /\ i.quantity - QuantitySum(i.incentive_id, disbursements) = 0
            /\ \A f \in FarmerPks \ {last.request.farmer_id}, q \in 1..MaxQuantity :
                  Disburse(last.request.user, i.incentive_id, f, IntParam(q)).response
                     = InsufficientResponse(0)

\* the refusal that follows: another farmer asks for a unit of an incentive
\* that one disbursement emptied
C9_Witness ==
    /\ Processed /\ WellFormed(last.request)
    /\ last.response = InsufficientResponse(0)
    /\ \E i \in OwnedIncentive(last.request) :
          \E d \in disbursements :
              /\ d.incentive = i.incentive_id
              /\ d.quantity = i.quantity
              /\ d.farmer # last.request.farmer_id

\* C10: a request that finds its farmer inactive creates no Disbursement, and
\* when the incentive is the caller's and its remaining quantity covers the
\* requested quantity, the answer is the inactive-farmer reason.
NamesInactiveFarmer(req) ==
    req.farmer_id \in FarmerIds /\ farmerStatus[req.farmer_id] = "inactive"

ProcessStep == last'.view = "process_disbursement"

\* C12: a process_disbursement request that passes all checks adds exactly one
\* Disbursement, with the requested quantity, incentive and farmer, with the
\* caller's own center as its redemption center and the caller as its issuer;
\* it changes no Incentive, Farmer or RedemptionCenter and no other
\* Disbursement; and it returns the new row's id with the remaining quantity
\* as it was before the call, less the quantity disbursed.
C12_SuccessAddsOneDisbursement ==
    [][(ProcessStep /\ last'.response.status = 200) =>
          LET req == last'.request
              new == disbursements' \ disbursements IN
          /\ disbursements \subseteq disbursements'
          /\ Cardinality(new) = 1
          /\ \A d \in new :
                /\ d.quantity = req.quantity.value
                /\ d.incentive = req.incentive_id
                /\ d.farmer = req.farmer_id
                /\ d.redemption_center = req.user
                /\ d.disbursed_by = req.user
                /\ d.disbursement_id = last'.response.disbursement_id
                /\ \A b \in disbursements : b.disbursement_id # d.disbursement_id
          /\ UNCHANGED <<incentives, farmerStatus, centerStatus, vendorStatus, vendorFarmers>>
          /\ \E i \in incentives :
                /\ i.incentive_id = req.incentive_id
                /\ last'.response.remaining_quantity
                      = (i.quantity - QuantitySum(i.incentive_id, disbursements))
                            - req.quantity.value
      ]_vars

\* a second disbursement of an incentive, by a center that already made one
C12_Witness ==
    /\ Succeeded
    /\ \E d \in RowsBefore :
          /\ d.incentive = last.request.incentive_id
          /\ d.redemption_center = last.request.user
    /\ \E d \in disbursements :
          /\ d.disbursement_id = last.response.disbursement_id
          /\ d.disbursed_by = last.request.user
          /\ d.quantity = last.request.quantity.value

\* The request fails one of the checks the handler is to make: the caller's
\* role, the two ids, the quantity, or one of the five validation checks.
FailsACheck(req, rows) ==
    \/ ~HasProfile(req.user)
    \/ req.incentive_id = NoId \/ req.farmer_id = NoId
    \/ ~req.quantity.isint
    \/ req.quantity.value < 1
    \/ FailingChecks(req, rows) # {}

IsErrorResult(response) ==
    /\ response.status \in {400, 403, 404, 500}
    /\ response.error # ""

\* C13: every process_disbursement request of a logged-in caller that fails
\* (no redemption-center role, an id missing, a quantity that is no integer or
\* below 1, or one of the five validation checks) is answered with an error
\* result and leaves every Disbursement, Incentive and Farmer as it was.
C13_FailureChangesNothing ==
    [][(ProcessStep /\ last'.request.user \in session
                    /\ FailsACheck(last'.request, disbursements)) =>
          /\ IsErrorResult(last'.response)
          /\ UNCHANGED <<disbursements, incentives, farmerStatus>>
      ]_vars

\* a request for quantity 0 that passes every other check, refused while the
\* incentive already has a Disbursement
C13_Witness ==
    /\ Processed /\ last.response = QuantityTooSmall
    /\ \E i \in incentives :
          /\ i.incentive_id = last.request.incentive_id
          /\ i.redemption_center = last.request.user
          /\ QuantitySum(i.incentive_id, disbursements) >= 1
          /\ QuantitySum(i.incentive_id, disbursements) < i.quantity
    /\ last.request.farmer_id \in FarmerIds
    /\ farmerStatus[last.request.farmer_id] = "active"
    /\ PairRows(last.request.incentive_id, last.request.farmer_id, disbursements) = {}

\* C14: the redemption center recorded on each Disbursement is the owning
\* center of the Disbursement's Incentive, in every reachable state.
C14_DisbursementCenterIsIncentiveCenter ==
    \A d \in disbursements : \A i \in incentives :
        d.incentive = i.incentive_id => d.redemption_center = i.redemption_center

\* The step is a POST to incentive_create or incentive_edit.
CreateStep == last'.view = "incentive_create"
EditStep == last'.view = "incentive_edit"

\* C15: incentive_create for an inactive center, and incentive_edit that moves
\* an Incentive to an inactive center, fail validation and leave the
\* Incentives unchanged; for an active center both succeed, so a create that
\* was refused succeeds once the center is active again.
C15_InactiveCenterTakesNoIncentive ==
    [][/\ CreateStep =>
             IF centerStatus[last'.redemption_center] = "active"
             THEN /\ last'.result = "saved"
                  /\ \E i \in incentives' \ incentives :
                        /\ i.redemption_center = last'.redemption_center
                        /\ incentives' = incentives \cup {i}
             ELSE /\ last'.result = "invalid"
                  /\ incentives' = incentives
       /\ EditStep =>
             \A i \in incentives :
                 (i.incentive_id = last'.pk /\ i.redemption_center # last'.redemption_center) =>
                     IF centerStatus[last'.redemption_center] = "active"
                     THEN /\ last'.result = "saved"
                          /\ \E j \in incentives' :
                                /\ j.incentive_id = i.incentive_id
                                /\ j.redemption_center = last'.redemption_center
                     ELSE /\ last'.result = "invalid"
                          /\ incentives' = incentives
      ]_vars

\* a create refused for its inactive center
C15_Witness ==
    /\ last.view = "incentive_create" /\ last.result = "invalid"
    /\ centerStatus[last.redemption_center] = "inactive"
    /\ incentives = {}

\* C16: incentive_edit that keeps the Incentive's center succeeds and saves the
\* other fields, also when that center has been deactivated since.
C16_EditKeepingCenterSucceeds ==
    [][EditStep =>
          \A i \in incentives :
              (i.incentive_id = last'.pk /\ i.redemption_center = last'.redemption_center) =>
                  /\ last'.result = "saved"
                  /\ \E j \in incentives' :
                        /\ j.incentive_id = i.incentive_id
                        /\ j.redemption_center = i.redemption_center
      ]_vars

\* The step is a POST to redemption_center_toggle_status.
ToggleStep == last'.view = "redemption_center_toggle_status"

OtherStatus(status) == IF status = "active" THEN "inactive" ELSE "active"

\* C17: redemption_center_toggle_status flips the status of one center and
\* changes nothing else: no other center, no Incentive, no Disbursement and no
\* remaining quantity; flipping is its own inverse, so a second toggle
\* restores the status.
C17_ToggleChangesOnlyStatus ==
    [][ToggleStep =>
          /\ \E pk \in CenterIds :
                /\ centerStatus'[pk] = OtherStatus(centerStatus[pk])
                /\ OtherStatus(centerStatus'[pk]) = centerStatus[pk]
                /\ ToggledStatus(centerStatus'[pk]) = centerStatus[pk]
                /\ \A c \in CenterIds \ {pk} : centerStatus'[c] = centerStatus[c]
          /\ UNCHANGED <<incentives, disbursements, farmerStatus>>
          /\ \A i \in incentives :
                get_remaining_quantity(disbursements', i) = get_remaining_quantity(disbursements, i)
      ]_vars

\* the center just deactivated owns an incentive with a disbursement
C17_Witness ==
    /\ last.view = "redemption_center_toggle_status"
    /\ \E i \in incentives :
          /\ centerStatus[i.redemption_center] = "inactive"
          /\ DisbursementsOf(disbursements, i.incentive_id) # {}

\* C11: a process_disbursement request of a caller whose redemption center is
\* inactive when the request runs is refused and creates no Disbursement.
C11_InactiveCenterDisbursesNothing ==
    (Processed /\ HasProfile(last.request.user)
               /\ centerStatus[last.request.user] = "inactive") =>
        /\ last.response.status # 200
        /\ disbursements = RowsBefore

\* The last lookup was for the NIN of this farmer.
LookedUp(farmer_id) == Strip(looked.nin) = NinOf(farmer_id)

\* C18: whatever the lookup answered before, a process_disbursement request
\* that passes the other checks is accepted when its farmer is active at the
\* time of the request and rejected as inactive when the farmer is not.
C18_StatusAtDisbursementDecides ==
    (/\ Processed /\ WellFormed(last.request)
     /\ LookedUp(last.request.farmer_id)
     /\ \A k \in {1, 2, 3, 5} : CheckPasses(k, last.request, RowsBefore)) =>
        IF farmerStatus[last.request.farmer_id] = "active"
        THEN last.response.status = 200
        ELSE last.response = FarmerInactive /\ disbursements = RowsBefore

\* the lookup returned the farmer as active, the farmer was deactivated, and
\* the disbursement was rejected
C18_Witness ==
    /\ Processed /\ WellFormed(last.request)
    /\ LookedUp(last.request.farmer_id)
    /\ looked.response.status = 200
    /\ \E f \in looked.response.farmer : f.status = "active"
    /\ last.response = FarmerInactive

\* the lookup found the farmer inactive, the farmer was reactivated, and the
\* disbursement was accepted
C18_WitnessReactivated ==
    /\ Succeeded
    /\ LookedUp(last.request.farmer_id)
    /\ looked.response = LookupFarmerInactive

\* The step is a lookup_farmer_by_nin request.
LookupStep == last'.view = "lookup_farmer_by_nin"

\* C19: a lookup by a logged-in redemption center with a national ID that is
\* exactly that of a farmer answers with that farmer and its status, active or
\* not; it answers not-found only when no farmer has exactly that ID; and it
\* changes nothing in the store.
C19_LookupReturnsFarmerAndStatus ==
    [][(LookupStep /\ last'.user \in session /\ HasProfile(last'.user)) =>
          LET exact == {f \in FarmerIds : NinOf(f) = last'.nin} IN
          /\ \A f \in exact :
                /\ last'.response.status = 200
                /\ last'.response.farmer = {[farmer_id |-> f, status |-> farmerStatus[f]]}
          /\ last'.response.status = 404 => exact = {}
          /\ UNCHANGED store
      ]_vars

\* The step is a request for a gated page by a logged-in user whose center,
\* or vendor, is inactive.
InactiveCenterStep ==
    /\ last'.view \in CenterPages
    /\ last'.user \in session /\ HasProfile(last'.user)
    /\ centerStatus[last'.user] # "active"

InactiveVendorStep ==
    /\ last'.view \in VendorPages
    /\ last'.user \in vendorSession /\ HasVendorProfile(last'.user)
    /\ vendorStatus[last'.user] # "active"

\* C20: a request for a gated page of either portal by a logged-in caller whose
\* center or vendor is inactive ends the caller's session in that request and
\* does none of the view's reads or writes: the answer is the redirect to the
\* login page, no record changes, and the caller's next request to a gated
\* page is answered as that of a user who is not logged in.
C20_InactiveCallerIsLoggedOut ==
    [][/\ InactiveCenterStep =>
             /\ last'.user \notin session'
             /\ last'.response = InactiveRedirect("redemption_center_login")
             /\ UNCHANGED <<store, vendorFarmers, vendorStatus>>
             /\ \A u \in Users : u = last'.user => CenterGate(u)'.response = LoginRequired
       /\ InactiveVendorStep =>
             /\ last'.user \notin vendorSession'
             /\ last'.response = InactiveRedirect("vendor_login")
             /\ UNCHANGED <<store, vendorFarmers, vendorStatus>>
             /\ \A u \in VendorUsers : u = last'.user => VendorGate(u)'.response = LoginRequired
      ]_vars

\* a center that has disbursed, deactivated and sent to the login page
C20_Witness ==
    /\ last.view \in CenterPages
    /\ last.response = InactiveRedirect("redemption_center_login")
    /\ last.user \notin session
    /\ centerStatus[last.user] = "inactive"
    /\ CenterDisbursements(last.user) # {}

\* a vendor posting a farmer registration after being deactivated
C20_WitnessVendor ==
    /\ last.view = "vendor_farmer_create"
    /\ last.response = InactiveRedirect("vendor_login")
    /\ last.user \notin vendorSession
    /\ vendorFarmers[last.user] = MaxRegistered

\* ------------------------------------------------------------------- C21
\* C21: no operation changes a field of a persisted Disbursement: a row that
\* is there before and after a step has the same incentive, farmer,
\* redemption center, quantity, issuing user and notes after it as before it;
\* ids are never given twice, so the row keeps the values it was created with.
C21_DisbursementNeverChanges ==
    [][\A d \in disbursements : \A e \in disbursements' :
          e.disbursement_id = d.disbursement_id =>
              /\ e.incentive = d.incentive
              /\ e.farmer = d.farmer
              /\ e.redemption_center = d.redemption_center
              /\ e.quantity = d.quantity
              /\ e.disbursed_by = d.disbursed_by
              /\ e.notes = d.notes]_vars

\* The change form of the admin site was saved for a row whose incentive has
\* meanwhile been given to another center.
C21_Witness ==
    /\ last.view = "disbursement_admin_change"
    /\ \E d \in disbursements : \E i \in incentives :
          /\ i.incentive_id = d.incentive
          /\ i.redemption_center # d.redemption_center

\* ------------------------------------------------------------------- C24
\* The Incentive rows that a step deletes.
DeletedIncentives == {i \in incentives : \A j \in incentives' : j.incentive_id # i.incentive_id}

\* Every Disbursement references an Incentive row, every Incentive a
\* RedemptionCenter row, and no Disbursement is left of a deleted center.
ReferencesExist ==
    /\ \A d \in disbursements : IncentiveByPk(d.incentive) # {}
    /\ \A i \in incentives : centerStatus[i.redemption_center] # "deleted"
    /\ \A d \in disbursements : centerStatus[d.redemption_center] # "deleted"

\* C24: redemption_center_delete deletes every Incentive the center owns and
\* every Disbursement against those incentives, incentive_delete deletes the
\* Disbursements of the incentive; and in every state each Disbursement
\* references an existing Incentive, each Incentive an existing center, and no
\* Disbursement of a deleted center is present.
C24_DeletesCascade ==
    /\ []ReferencesExist
    /\ [][/\ last'.view = "redemption_center_delete" =>
                 \A i \in incentives : i.redemption_center = last'.pk => i \in DeletedIncentives
          /\ \A i \in DeletedIncentives : \A d \in disbursements' :
                 d.incentive # i.incentive_id]_vars

\* A center was deleted, and an incentive and a disbursement went with it.
C24_Witness ==
    /\ last.view = "redemption_center_delete"
    /\ last.deleted.Incentive > 0
    /\ last.deleted.Disbursement > 0

\* ------------------------------------------------------------------- C22
\* The incentives of a center with something left, each with what is left.
AvailableOf(center) ==
    {[incentive |-> i.incentive_id,
      remaining_quantity |-> i.quantity - QuantitySum(i.incentive_id, disbursements)] :
        i \in {j \in incentives :
                  /\ j.redemption_center = center
                  /\ j.quantity - QuantitySum(j.incentive_id, disbursements) > 0}}

OwnedIds(center) == {i.incentive_id : i \in {j \in incentives : j.redemption_center = center}}

Served(view) == last.view = view /\ last.response.status = 200

\* C22: the available-incentives list built for a center holds exactly the
\* incentives the center owns whose remaining quantity is above 0, each with
\* its remaining quantity (so an untouched incentive with its quantity, no
\* exhausted incentive, no incentive of another center); the full lists of the
\* allocations page and of the admin's center page hold every incentive of the
\* center.
C22_AvailableAndFullLists ==
    /\ Served("redemption_center_disburse") =>
           last.response.context.available_incentives = AvailableOf(last.user)
    /\ Served("redemption_center_allocations") =>
           {r.incentive : r \in last.response.context.allocations} = OwnedIds(last.user)
    /\ Served("redemption_center_detail") =>
           /\ {r.incentive : r \in last.response.context.incentives} = OwnedIds(last.pk)
           /\ {[incentive |-> r.incentive, remaining_quantity |-> r.remaining_quantity] :
                  r \in last.response.context.inventory} = AvailableOf(last.pk)

\* The disburse page was built for a center that owns an exhausted incentive.
C22_Witness ==
    /\ Served("redemption_center_disburse")
    /\ \E i \in incentives :
          /\ i.redemption_center = last.user
          /\ i.quantity > 0
          /\ QuantitySum(i.incentive_id, disbursements) = i.quantity
    /\ last.response.context.available_incentives = {}

\* ------------------------------------------------------------------- C23
\* C23: a process_disbursement against an incentive of the caller whose
\* disbursed sum exceeds its quantity fails with a result that is not the
\* insufficient-quantity result.
C23_OverdrawnIsInvariantViolation ==
    (/\ Processed
     /\ WellFormed(last.request)
     /\ \E i \in OwnedIncentive(last.request) :
           QuantitySum(i.incentive_id, RowsBefore) > i.quantity)
        => /\ last.response.status # 200
           /\ last.response.error # "Insufficient quantity"

\* ------------------------------------------------------------------- C29
\* C29: the dashboard's total_items_remaining of a center is the sum of the
\* remaining quantities of the incentives the center owns, and is not negative.
C29_TotalRemainingIsSumOfRemaining ==
    Served("redemption_center_dashboard") =>
        /\ last.response.context.total_items_remaining =
               SumIncentiveQuantity({j \in incentives : j.redemption_center = last.user})
                   - SumQuantity({d \in disbursements :
                                     d.incentive \in OwnedIds(last.user)})
        /\ last.response.context.total_items_remaining >= 0

\* ------------------------------------------------------------------- C28
\* C28: every row of an inventory or allocation report has
\* disbursed_quantity + remaining_quantity = total_quantity, also when a
\* process_disbursement for the incentive commits between the two reads.
C28_ReportRowAddsUp ==
    report.pc = "done" =>
        \A r \in report.rows : r.disbursed_quantity + r.remaining_quantity = r.total_quantity

\* ------------------------------------------------------------------- C25
\* C25: each Farmer that has both a state and an LGA has an LGA of that state.
C25_LgaBelongsToState ==
    \A f \in FarmerIds :
        (/\ farmerPlace[f] # Absent
         /\ farmerPlace[f].state # Blank
         /\ farmerPlace[f].LGA # Blank)
            => LgaState[farmerPlace[f].LGA] = farmerPlace[f].state

\* ------------------------------------------------------------------- C27
\* Each Group references a GroupType row.
GroupTypesExist == \A g \in GroupIds : groups[g] # Blank => groups[g] \in groupTypes

\* C27: group_type_delete of a GroupType that a Group references fails and
\* leaves every GroupType, Group and Farmer as it was; it deletes only a
\* GroupType that no Group references; and in every state each Group
\* references an existing GroupType.
C27_UsedGroupTypeIsKept ==
    /\ []GroupTypesExist
    /\ [][last'.view = "group_type_delete" =>
             /\ (\E g \in GroupIds : groups[g] = last'.pk) =>
                    /\ last'.result = "protected"
                    /\ UNCHANGED <<groupTypes, groups, farmerGroupType, farmerPlace,
                                   farmerStatus>>
             /\ last'.result = "deleted" =>
                    /\ \A g \in GroupIds : groups[g] # last'.pk
                    /\ last'.pk \notin groupTypes']_vars

\* The delete of a group type was refused, which a group and a farmer reference.
C27_Witness ==
    /\ last.view = "group_type_delete"
    /\ last.result = "protected"
    /\ \E g \in GroupIds : groups[g] = last.pk
    /\ \E f \in FarmerIds : farmerGroupType[f] = last.pk

\* ------------------------------------------------------------------- C26
\* All Vendor rows hold pairwise distinct numbers, each in 100000..999999.
RegistrationNumbersDistinct ==
    \A v, w \in VendorIds :
        (v # w /\ vendorRegNo[v] # Absent /\ vendorRegNo[w] # Absent)
            => vendorRegNo[v].vendor_registration_no # vendorRegNo[w].vendor_registration_no

RegistrationNumbersInRange ==
    \A v \in VendorIds :
        vendorRegNo[v] # Absent =>
            vendorRegNo[v].vendor_registration_no \in RegNoLow..RegNoHigh

\* C26: in every state the registration numbers of the Vendors are pairwise
\* distinct and each is a number in 100000..999999, assigned by the first
\* save; and no later save (vendor_edit, vendor_toggle_status,
\* vendor_credentials) changes the number of a Vendor.
C26_RegistrationNumberIsUniqueAndKept ==
    /\ [](RegistrationNumbersDistinct /\ RegistrationNumbersInRange)
    /\ [][\A v \in VendorIds : vendorRegNo[v] # Absent => vendorRegNo'[v] = vendorRegNo[v]]_vars

\* A registered vendor was saved again by vendor_toggle_status, while another
\* vendor is registered too.
C26_Witness ==
    /\ last.view = "vendor_toggle_status"
    /\ last.result = "saved"
    /\ \A v \in VendorIds : vendorRegNo[v] # Absent

\* ------------------------------------------------------------------- C30
Drawing(v) == vendorSave[v].pc = "draw"

\* C30: a Vendor.save that draws, while some number is unused, leaves the loop
\* with a number assigned (or no number is unused any more); and of two
\* creations that drew the same number at most one row with it is written.
C30_SaveTerminatesAndNumberIsUnique ==
    /\ \A v \in VendorIds :
          (Drawing(v) /\ UnusedNumbers # {})
              ~> (\/ vendorSave[v].pc = "write" /\ vendorSave[v].registration_no \in DrawnNumbers
                  \/ vendorRegNo[v] # Absent
                  \/ UnusedNumbers = {})
    /\ []RegistrationNumbersDistinct

\* Two creations drew the same number: one wrote its row, the other was refused.
C30_Witness ==
    /\ last.view = "vendor_create"
    /\ last.result = "IntegrityError"
    /\ vendorRegNo[last.pk] = Absent
    /\ \E w \in VendorIds \ {last.pk} :
          /\ vendorRegNo[w] # Absent
          /\ vendorRegNo[w].vendor_registration_no = last.registration_no

====
